---- MODULE Spec2Model ----
\* Model of Masy1031/yfinance-stock-monitor:
\*   - AdvancedStockDashboard.calculate_technical_indicators
\*     (src/advanced_streamlit_dashboard.py), the indicator engine;
\*   - LookerStudioExporter / LookerStudioOptimized snapshot categorizers and the
\*     records of get_enhanced_stock_data / get_optimized_stock_data /
\*     export_performance_data (src/looker_studio_exporter.py,
\*     src/looker_studio_optimized.py).
\*
\* Numbers.  Python floats are modelled as exact rationals plus the two special
\* floats the code can produce, NaN and +/-inf: a value is a record
\* [k, n, d] with k = "num" (the reduced fraction n/d, d > 0), k = "nan", or
\* k = "inf" (n is the sign).  Rounding error of binary floating point is not
\* modelled.  Indices of a pandas Series are 0-based in the source; a column is a
\* TLA+ sequence, and At(col, i) reads the source's index i.
EXTENDS Integers, Sequences, FiniteSets, TLC

VARIABLES
    data,       \* the input Series handed to calculate_technical_indicators: its Close column
    df,         \* the Close column of the copy the function enriches and returns
    pc,         \* "collect": the collector is still appending bars; "done": the function returned
    columns,    \* the column names of the caller's table (columns.data) and of the returned one (columns.df)
    perf,       \* the row export_performance_data emits for the symbol whose history is data
    info,       \* ticker.info of the snapshot's symbol: marketCap, averageVolume, sector
    latest,     \* hist.iloc[-1] of the snapshot's symbol: Close, Open, High, Low, Volume
    record,     \* what get_optimized_stock_data / get_enhanced_stock_data returned
    call,       \* the last call of a bucket function: its name, arguments and returned label
    monitor,    \* the StockPriceMonitor instance: whether one was constructed, and its symbols
    fetch,      \* the last get_all_stock_data call: get_stock_data calls made, list returned
    csv,        \* stock_prices.csv in the output directory: absent, or its rows
    exporter,   \* the live LookerStudioOptimized / LookerStudioExporter instance: class, symbols, gc
    files,      \* the export files of the output directory, by name: absent, or their rows
    sheets,     \* the worksheets of the Google spreadsheet, by title: absent, or their rows
    exported,   \* the last export call: operation, what each export returned, what was uploaded
    now,        \* the clock: number of export calls made so far
    updater,    \* the AutoUpdater: running, last_update, where run() is, what it has done
    session_state, \* st.session_state of the dashboard: watchlist and portfolio
    widgets     \* the dashboard's widgets: slider weights, and the last interaction

vars ==
    <<data, df, pc, columns, perf, info, latest, record, call,
      monitor, fetch, csv, exporter, files, sheets, exported, now, updater,
      session_state, widgets>>

seriesVars == <<data, df, pc, columns, perf>>
snapshotVars == <<info, latest, record, call>>
monitorVars == <<monitor, fetch, csv>>
\* The variables of the scripts around the indicator engine and the snapshots.
exportVars == <<exporter, files, sheets, exported, now>>
dashboardVars == <<session_state, widgets>>
appVars == <<monitorVars, exportVars, updater, dashboardVars>>

-----------------------------------------------------------------------------
\* Bounds of the model.

\* Longest input series (one more than MA_50 needs for a second valid index).
MaxLen == 51
\* Number of leading bar-to-bar differences of an input series that are chosen
\* freely; after them the series continues its last trend.
FreeBars == 4
\* Close of the first bar; large enough that a falling series stays positive.
StartClose == 60
\* Longest input series of the RSI specification: the 14-bar windows ending at
\* the indices 13 .. 19 hold every mix of free and trend differences a longer
\* series has.
MaxRsiLen == 20
\* How far around each bucket threshold the arguments of the bucket functions
\* range (in cents, hundredths of a percent, millions of dollars).
Margin == 1
\* Largest volume and largest average volume handed to _categorize_volume.
MaxVolume == 13
MaxAvgVolume == 4
\* Longest symbol list of a StockPriceMonitor.
MaxSymbols == 2
\* Largest number of rows of stock_prices.csv.
MaxRows == 4
\* Largest number of export calls.
MaxExports == 2
\* Largest number of update_data calls of the run() specification.
MaxRunUpdates == 3
\* Largest number of schedule.run_pending() calls.
MaxPolls == 2
\* Longest input series of the exponential-average specification.
MaxEmaLen == 3
\* Largest close of the exponential-average specification.
MaxEmaClose == 4

-----------------------------------------------------------------------------
\* Float values.

NaN == [k |-> "nan", n |-> 0, d |-> 1]

Inf(sign) == [k |-> "inf", n |-> sign, d |-> 1]

Abs(x) == IF x < 0 THEN -x ELSE x

RECURSIVE GCD(_, _)
GCD(a, b) == IF b = 0 THEN a ELSE GCD(b, a % b)

\* The fraction n/d (d # 0) in lowest terms with a positive denominator.
Num(n, d) ==
    LET g == GCD(Abs(n), Abs(d))
        s == IF d < 0 THEN -1 ELSE 1
    IN  [k |-> "num", n |-> s * (n \div g), d |-> s * (d \div g)]

Float(x) == [k |-> "num", n |-> x, d |-> 1]

IsNum(x) == x.k = "num"
IsNaN(x) == x.k = "nan"
IsInf(x) == x.k = "inf"

Sign(x) == IF x.n > 0 THEN 1 ELSE IF x.n < 0 THEN -1 ELSE 0

\* Comparisons of floats: any comparison with NaN is False.
FLt(x, y) ==
    CASE IsNaN(x) \/ IsNaN(y) -> FALSE
      [] IsInf(x) /\ IsInf(y) -> x.n < y.n
      [] IsInf(x) -> x.n < 0
      [] IsInf(y) -> y.n > 0
      [] OTHER -> x.n * y.d < y.n * x.d

FGt(x, y) == FLt(y, x)

FLe(x, y) == ~IsNaN(x) /\ ~IsNaN(y) /\ ~FLt(y, x)

FNeg(x) ==
    CASE IsNaN(x) -> NaN
      [] IsInf(x) -> Inf(-x.n)
      [] OTHER -> Num(-x.n, x.d)

FAdd(x, y) ==
    CASE IsNaN(x) \/ IsNaN(y) -> NaN
      [] IsInf(x) /\ IsInf(y) -> IF x.n = y.n THEN x ELSE NaN
      [] IsInf(x) -> x
      [] IsInf(y) -> y
      [] x.d = 1 /\ y.d = 1 -> Float(x.n + y.n)
      [] OTHER ->
            \* over the least common denominator, so that the products stay small
            LET g == GCD(x.d, y.d)
            IN  Num(x.n * (y.d \div g) + y.n * (x.d \div g), (x.d \div g) * y.d)

FSub(x, y) == FAdd(x, FNeg(y))

FMul(x, y) ==
    CASE IsNaN(x) \/ IsNaN(y) -> NaN
      [] IsInf(x) \/ IsInf(y) ->
            IF Sign(x) * Sign(y) = 0 THEN NaN ELSE Inf(Sign(x) * Sign(y))
      [] x.d = 1 /\ y.d = 1 -> Float(x.n * y.n)
      [] OTHER ->
            \* cross-cancel first, so that the products stay small
            LET g1 == GCD(Abs(x.n), y.d)
                g2 == GCD(Abs(y.n), x.d)
            IN  Num((x.n \div g1) * (y.n \div g2), (x.d \div g2) * (y.d \div g1))

\* Division of float arrays (numpy): x/0 is +/-inf, 0/0 is NaN, no exception.
FDiv(x, y) ==
    CASE IsNaN(x) \/ IsNaN(y) -> NaN
      [] IsInf(x) /\ IsInf(y) -> NaN
      [] IsInf(x) -> Inf(x.n * (IF y.n < 0 THEN -1 ELSE 1))
      [] IsInf(y) -> Float(0)
      [] y.n = 0 -> IF x.n = 0 THEN NaN ELSE Inf(Sign(x))
      [] OTHER -> FMul(x, Num(y.d, y.n))

\* The source's 0-based index i of a column.
At(col, i) == col[i + 1]

Indices(col) == 0 .. (Len(col) - 1)

-----------------------------------------------------------------------------
\* pandas operations used by calculate_technical_indicators.

\* Series.diff(): the first element has no predecessor and is NaN.
diff(s) == [i \in 1..Len(s) |-> IF i = 1 THEN NaN ELSE FSub(s[i], s[i - 1])]

\* delta.where(delta > 0, 0): keeps the element where the condition is True and
\* puts 0 elsewhere; NaN > 0 is False, so a NaN becomes 0.
where_pos(s) == [i \in 1..Len(s) |-> IF FGt(s[i], Float(0)) THEN s[i] ELSE Float(0)]

\* delta.where(delta < 0, 0)
where_neg(s) == [i \in 1..Len(s) |-> IF FLt(s[i], Float(0)) THEN s[i] ELSE Float(0)]

neg(s) == [i \in 1..Len(s) |-> FNeg(s[i])]

RECURSIVE SumRange(_, _, _)
SumRange(s, lo, hi) ==
    IF lo > hi THEN Float(0) ELSE FAdd(SumRange(s, lo, hi - 1), s[hi])

RECURSIVE SumSqRange(_, _, _)
SumSqRange(s, lo, hi) ==
    IF lo > hi THEN Float(0) ELSE FAdd(SumSqRange(s, lo, hi - 1), FMul(s[hi], s[hi]))

\* Number of non-NaN observations among s[lo..hi].
Observed(s, lo, hi) == Cardinality({j \in lo..hi : ~IsNaN(s[j])})

WinLo(i, window) == IF i - window + 1 < 1 THEN 1 ELSE i - window + 1

\* rolling(window, min_periods=1).mean(): the mean of whatever the window holds.
rolling_mean_min1(s, window) ==
    [i \in 1..Len(s) |->
        IF Observed(s, WinLo(i, window), i) < 1
        THEN NaN
        ELSE FDiv(SumRange(s, WinLo(i, window), i),
                  Float(Observed(s, WinLo(i, window), i)))]

\* Series.rolling(window).mean(): min_periods defaults to window, so the result
\* is NaN until the trailing window holds `window` non-NaN observations.
rolling_mean(s, window) ==
    [i \in 1..Len(s) |->
        IF Observed(s, WinLo(i, window), i) < window
        THEN NaN
        ELSE FDiv(SumRange(s, WinLo(i, window), i), Float(window))]

\* The square of Series.rolling(window).std(): the sample variance (ddof = 1) of
\* the trailing window, (n*sum(x^2) - sum(x)^2) / (n*(n-1)).
rolling_var(s, window) ==
    [i \in 1..Len(s) |->
        IF Observed(s, WinLo(i, window), i) < window
        THEN NaN
        ELSE LET sm == SumRange(s, WinLo(i, window), i)
                 sq == SumSqRange(s, WinLo(i, window), i)
             IN  FDiv(FSub(FMul(Float(window), sq), FMul(sm, sm)),
                      Float(window * (window - 1)))]

\* A standard deviation is the square root of a rational and in general
\* irrational: a value a + b*sqrt(r) is kept symbolically as [a, b, r] (floats),
\* with b = 0 and r = 0 when the root part vanishes, and all three NaN when the
\* value is NaN.  Sums are only ever formed over a common radicand.
SNaN == [a |-> NaN, b |-> NaN, r |-> NaN]

Surd(a, b, r) ==
    IF IsNaN(a) \/ IsNaN(b) \/ IsNaN(r) THEN SNaN
    ELSE IF b = Float(0) \/ r = Float(0) THEN [a |-> a, b |-> Float(0), r |-> Float(0)]
    ELSE [a |-> a, b |-> b, r |-> r]

SIsNaN(x) == IsNaN(x.a)

\* sqrt(v) of a float v >= 0 (NaN for NaN).
Sqrt(v) == Surd(Float(0), Float(1), v)

SFromFloat(x) == Surd(x, Float(0), Float(0))

SAdd(x, y) ==
    IF SIsNaN(x) \/ SIsNaN(y) THEN SNaN
    ELSE Surd(FAdd(x.a, y.a), FAdd(x.b, y.b), IF x.r = Float(0) THEN y.r ELSE x.r)

SScale(x, c) == IF SIsNaN(x) THEN SNaN ELSE Surd(FMul(x.a, c), FMul(x.b, c), x.r)

SSub(x, y) == SAdd(x, SScale(y, Float(-1)))

\* Series.rolling(window).std()
rolling_std(s, window) ==
    LET v == rolling_var(s, window)
    IN  [i \in 1..Len(s) |-> Sqrt(v[i])]

\* Series.ewm(span=span).mean() with pandas' defaults (adjust=True): the mean of
\* the observations so far with weights (1-alpha)^k on the observation k bars
\* back, alpha = 2/(span+1).  It is computed incrementally: the weighted sum
\* is S[i] = x[i] + (1-alpha)*S[i-1] and the sum of weights W[i] = 1 + (1-alpha)*W[i-1].
Decay(span) == Num(span - 1, span + 1)

RECURSIVE EwmSum(_, _, _)
EwmSum(s, span, i) ==
    IF i = 1 THEN s[1] ELSE FAdd(s[i], FMul(Decay(span), EwmSum(s, span, i - 1)))

RECURSIVE EwmWeight(_, _)
EwmWeight(span, i) ==
    IF i = 1 THEN Float(1) ELSE FAdd(Float(1), FMul(Decay(span), EwmWeight(span, i - 1)))

\* adjust=False: the plain recurrence y[0] = x[0], y[i] = alpha*x[i] + (1-alpha)*y[i-1].
RECURSIVE EwmRecurrence(_, _, _)
EwmRecurrence(s, span, i) ==
    IF i = 1 THEN s[1]
    ELSE FAdd(FMul(Num(2, span + 1), s[i]),
              FMul(Decay(span), EwmRecurrence(s, span, i - 1)))

ewm_mean_unadjusted(s, span) == [i \in 1..Len(s) |-> EwmRecurrence(s, span, i)]

ewm_mean(s, span) ==
    [i \in 1..Len(s) |-> FDiv(EwmSum(s, span, i), EwmWeight(span, i))]

-----------------------------------------------------------------------------
\* calculate_technical_indicators: the columns of the returned frame, as the
\* source computes them from the copy's Close column.

Close == [i \in 1..Len(df) |-> Float(df[i])]

MA_5 == rolling_mean(Close, 5)
MA_20 == rolling_mean(Close, 20)
MA_50 == rolling_mean(Close, 50)

delta == diff(Close)
gain == rolling_mean(where_pos(delta), 14)
loss == rolling_mean(neg(where_neg(delta)), 14)
\* A relative strength taken the other way round, loss over gain.
rs_inverted == [i \in 1..Len(df) |-> FDiv(loss[i], gain[i])]
rs == [i \in 1..Len(df) |-> FDiv(gain[i], loss[i])]
RSI ==
    LET q == rs
    IN  [i \in 1..Len(df) |-> FSub(Float(100), FDiv(Float(100), FAdd(Float(1), q[i])))]

BB_Middle == rolling_mean(Close, 20)
bb_std == rolling_std(Close, 20)
BB_Upper ==
    LET m == BB_Middle
        sd == bb_std
    IN  [i \in 1..Len(df) |-> SAdd(SFromFloat(m[i]), SScale(sd[i], Float(2)))]
\* A lower band one deviation below the middle.
BB_Lower_OneSigma ==
    LET m == BB_Middle
        sd == bb_std
    IN  [i \in 1..Len(df) |-> SSub(SFromFloat(m[i]), SScale(sd[i], Float(1)))]
BB_Lower ==
    LET m == BB_Middle
        sd == bb_std
    IN  [i \in 1..Len(df) |-> SSub(SFromFloat(m[i]), SScale(sd[i], Float(2)))]

exp1 == ewm_mean(Close, 12)
exp2 == ewm_mean(Close, 26)
MACD ==
    LET e1 == exp1
        e2 == exp2
    IN  [i \in 1..Len(df) |-> FSub(e1[i], e2[i])]
MACD_Signal == ewm_mean(MACD, 9)
\* A histogram taken the other way round, signal minus MACD.
MACD_Histogram_Reversed ==
    LET m == MACD
        sg == MACD_Signal
    IN  [i \in 1..Len(df) |-> FSub(sg[i], m[i])]
MACD_Histogram ==
    LET m == MACD
        sg == MACD_Signal
    IN  [i \in 1..Len(df) |-> FSub(m[i], sg[i])]

-----------------------------------------------------------------------------
\* Python values of the snapshot.  A value of the info dict is the key being
\* absent, None, the string 'N/A', or a number; an emitted field is a number or
\* the string 'N/A'.  Prices are in cents, so that round(x, 2) of a price is
\* the identity; percentages are rationals, and a percentage rounded by
\* round(x, 2) is an integer number of hundredths; market capitalisations are
\* in millions of dollars.

Absent == [t |-> "absent", v |-> 0]
None == [t |-> "None", v |-> 0]
NA == [t |-> "str", v |-> 0]
PyInt(x) == [t |-> "int", v |-> x]

\* dict.get(key, default)
dict_get(value, default) == IF value.t = "absent" THEN default ELSE value

\* bool(value): None, 0 and a missing key (get without default gives None) are False.
Truthy(value) == (value.t = "int" /\ value.v # 0) \/ value.t = "str"

\* The outcome of an expression that raises TypeError.
TypeError == "TypeError"

\* round(n/d * 1, 0) to the nearest integer, ties to the even one (Python 3).
RoundHalfEven(n, d) ==
    LET nn == IF d < 0 THEN -n ELSE n
        dd == Abs(d)
        q == nn \div dd
        r == nn % dd
    IN  IF 2 * r < dd THEN q
        ELSE IF 2 * r > dd THEN q + 1
        ELSE IF q % 2 = 0 THEN q ELSE q + 1

\* round(x, 2) of a rational x, in hundredths.
Round2(x) == RoundHalfEven(x.n * 100, x.d)

\* ---- LookerStudioExporter (src/looker_studio_exporter.py)

\* Price buckets whose boundary values fall into the lower bucket.
Exporter_categorize_price_inclusive(price) ==
    IF price <= 10 * 100 THEN "Low Price"
    ELSE IF price <= 50 * 100 THEN "Medium Price"
    ELSE IF price <= 100 * 100 THEN "High Price"
    ELSE "Very High Price"

Exporter_categorize_price(price) ==
    IF price < 10 * 100 THEN "Low Price"
    ELSE IF price < 50 * 100 THEN "Medium Price"
    ELSE IF price < 100 * 100 THEN "High Price"
    ELSE "Very High Price"

\* Change buckets whose boundary values fall into the lower bucket.
Exporter_categorize_change_inclusive(change_percent) ==
    IF change_percent <= -5 * 100 THEN "Large Decrease"
    ELSE IF change_percent <= -1 * 100 THEN "Decrease"
    ELSE IF change_percent <= 1 * 100 THEN "Stable"
    ELSE IF change_percent <= 5 * 100 THEN "Increase"
    ELSE "Large Increase"

Exporter_categorize_change(change_percent) ==
    IF change_percent < -5 * 100 THEN "Large Decrease"
    ELSE IF change_percent < -1 * 100 THEN "Decrease"
    ELSE IF change_percent < 1 * 100 THEN "Stable"
    ELSE IF change_percent < 5 * 100 THEN "Increase"
    ELSE "Large Increase"

\* Volume buckets whose boundary ratios fall into the lower bucket.
Exporter_categorize_volume_inclusive(volume, avg_volume) ==
    IF avg_volume = PyInt(0) THEN "Unknown"
    ELSE IF avg_volume.t # "int" THEN TypeError
    ELSE LET ratio == Num(volume, avg_volume.v)
         IN  IF FLe(ratio, Num(1, 2)) THEN "Low Volume"
             ELSE IF FLe(ratio, Num(3, 2)) THEN "Normal Volume"
             ELSE IF FLe(ratio, Float(3)) THEN "High Volume"
             ELSE "Very High Volume"

Exporter_categorize_volume(volume, avg_volume) ==
    IF avg_volume = PyInt(0) THEN "Unknown"
    ELSE IF avg_volume.t # "int" THEN TypeError
    ELSE LET ratio == Num(volume, avg_volume.v)
         IN  IF FLt(ratio, Num(1, 2)) THEN "Low Volume"
             ELSE IF FLt(ratio, Num(3, 2)) THEN "Normal Volume"
             ELSE IF FLt(ratio, Float(3)) THEN "High Volume"
             ELSE "Very High Volume"

\* Market cap buckets whose boundary values fall into the lower bucket.
Exporter_categorize_market_cap_inclusive(market_cap) ==
    IF market_cap = PyInt(0) \/ market_cap = NA THEN "Unknown"
    ELSE IF market_cap.t # "int" THEN TypeError
    ELSE IF market_cap.v <= 2000 THEN "Small Cap"
    ELSE IF market_cap.v <= 10000 THEN "Mid Cap"
    ELSE IF market_cap.v <= 200000 THEN "Large Cap"
    ELSE "Mega Cap"

Exporter_categorize_market_cap(market_cap) ==
    IF market_cap = PyInt(0) \/ market_cap = NA THEN "Unknown"
    ELSE IF market_cap.t # "int" THEN TypeError
    ELSE IF market_cap.v < 2000 THEN "Small Cap"
    ELSE IF market_cap.v < 10000 THEN "Mid Cap"
    ELSE IF market_cap.v < 200000 THEN "Large Cap"
    ELSE "Mega Cap"

\* ---- LookerStudioOptimized (src/looker_studio_optimized.py)

Optimized_categorize_price(price) ==
    IF price < 10 * 100 THEN "Under $10"
    ELSE IF price < 25 * 100 THEN "$10-$25"
    ELSE IF price < 50 * 100 THEN "$25-$50"
    ELSE IF price < 100 * 100 THEN "$50-$100"
    ELSE IF price < 200 * 100 THEN "$100-$200"
    ELSE "Over $200"

Optimized_categorize_change(change_percent) ==
    IF change_percent < -500 THEN "Large Decrease (>-5%)"
    ELSE IF change_percent < -200 THEN "Decrease (-2% to -5%)"
    ELSE IF change_percent < -50 THEN "Small Decrease (-0.5% to -2%)"
    ELSE IF change_percent < 50 THEN "Stable (-0.5% to 0.5%)"
    ELSE IF change_percent < 200 THEN "Small Increase (0.5% to 2%)"
    ELSE IF change_percent < 500 THEN "Increase (2% to 5%)"
    ELSE "Large Increase (>5%)"

\* Volume buckets without the guard for an average volume of 0: the division
\* raises.
Optimized_categorize_volume_unguarded(volume, avg_volume) ==
    IF avg_volume.t # "int" THEN TypeError
    ELSE IF avg_volume.v = 0 THEN "ZeroDivisionError"
    ELSE LET ratio == Num(volume, avg_volume.v)
         IN  IF FLt(ratio, Num(1, 2)) THEN "Very Low (<50%)"
             ELSE IF FLt(ratio, Num(4, 5)) THEN "Low (50%-80%)"
             ELSE IF FLt(ratio, Num(6, 5)) THEN "Normal (80%-120%)"
             ELSE IF FLt(ratio, Float(2)) THEN "High (120%-200%)"
             ELSE "Very High (>200%)"

Optimized_categorize_volume(volume, avg_volume) ==
    IF avg_volume = PyInt(0) THEN "Unknown"
    ELSE IF avg_volume.t # "int" THEN TypeError
    ELSE LET ratio == Num(volume, avg_volume.v)
         IN  IF FLt(ratio, Num(1, 2)) THEN "Very Low (<50%)"
             ELSE IF FLt(ratio, Num(4, 5)) THEN "Low (50%-80%)"
             ELSE IF FLt(ratio, Num(6, 5)) THEN "Normal (80%-120%)"
             ELSE IF FLt(ratio, Float(2)) THEN "High (120%-200%)"
             ELSE "Very High (>200%)"

Optimized_categorize_market_cap(market_cap) ==
    IF market_cap = PyInt(0) THEN "Unknown"
    ELSE IF market_cap.t # "int" THEN TypeError
    ELSE IF market_cap.v < 300 THEN "Micro Cap (<$300M)"
    ELSE IF market_cap.v < 2000 THEN "Small Cap ($300M-$2B)"
    ELSE IF market_cap.v < 10000 THEN "Mid Cap ($2B-$10B)"
    ELSE IF market_cap.v < 200000 THEN "Large Cap ($10B-$200B)"
    ELSE "Mega Cap (>$200B)"

\* A sector name is a sequence of text pieces (words and the blanks between
\* them); `keyword in sector` holds when the keyword's pieces occur in the name
\* as a contiguous run.
Contains(name, keyword) ==
    \E o \in 1..(Len(name) - Len(keyword) + 1) :
        SubSeq(name, o, o + Len(keyword) - 1) = keyword

PyStr(pieces) == [t |-> "str", v |-> pieces]
SectorAbsent == [t |-> "absent", v |-> << >>]
SectorNone == [t |-> "None", v |-> << >>]

tech_sectors == {<<"Technology">>, <<"Software">>, <<"Hardware">>, <<"Semiconductors">>}
finance_sectors == {<<"Financial", " ", "Services">>, <<"Banks">>, <<"Insurance">>}
healthcare_sectors == {<<"Healthcare">>, <<"Biotechnology">>, <<"Pharmaceuticals">>}
consumer_sectors ==
    {<<"Consumer", " ", "Discretionary">>, <<"Consumer", " ", "Staples">>, <<"Retail">>}

Optimized_categorize_sector(sector) ==
    IF sector.t = "None" \/ sector.v = << >> \/ sector.v = <<"Unknown">> THEN "Unknown"
    ELSE IF \E tech \in tech_sectors : Contains(sector.v, tech) THEN "Technology"
    ELSE IF \E fin \in finance_sectors : Contains(sector.v, fin) THEN "Financial"
    ELSE IF \E health \in healthcare_sectors : Contains(sector.v, health) THEN "Healthcare"
    ELSE IF \E cons \in consumer_sectors : Contains(sector.v, cons) THEN "Consumer"
    ELSE "Other"

\* Volatility buckets whose boundary values fall into the lower bucket.
Optimized_categorize_volatility_inclusive(volatility) ==
    IF FLe(volatility, Float(1)) THEN "Very Low (<1%)"
    ELSE IF FLe(volatility, Float(2)) THEN "Low (1%-2%)"
    ELSE IF FLe(volatility, Float(3)) THEN "Medium (2%-3%)"
    ELSE IF FLe(volatility, Float(5)) THEN "High (3%-5%)"
    ELSE "Very High (>5%)"

Optimized_categorize_volatility(volatility) ==
    IF FLt(volatility, Float(1)) THEN "Very Low (<1%)"
    ELSE IF FLt(volatility, Float(2)) THEN "Low (1%-2%)"
    ELSE IF FLt(volatility, Float(3)) THEN "Medium (2%-3%)"
    ELSE IF FLt(volatility, Float(5)) THEN "High (3%-5%)"
    ELSE "Very High (>5%)"

\* ((day_high - day_low) / current_price) * 100 if current_price != 0 else 0
VolatilityPercent(bar) ==
    IF bar.Close # 0
    THEN FMul(FDiv(Float(bar.High - bar.Low), Float(bar.Close)), Float(100))
    ELSE Float(0)

\* round((change / previous_close) * 100, 2) if previous_close != 0 else 0,
\* in hundredths; previous_close is the bar's Open.
ChangePercent(bar) ==
    IF bar.Open # 0
    THEN Round2(FMul(FDiv(Float(bar.Close - bar.Open), Float(bar.Open)), Float(100)))
    ELSE 0

\* An emitted field: a number (in hundredths) or the string 'N/A'.
Number(h) == [t |-> "num", v |-> h]
NotAvailable == [t |-> "str", v |-> 0]

\* The shape of a returned dict; kind tells which function built it.
BlankRecord ==
    [kind |-> "pending", current_price |-> 0, price_change_percent |-> 0,
     volatility |-> Number(0), rsi_14 |-> Number(0), performance_1w |-> Number(0),
     performance_1m |-> Number(0), performance_1y |-> Number(0),
     price_category |-> "", change_category |-> "", volume_category |-> "",
     market_cap_category |-> "", sector_category |-> "", volatility_category |-> "",
     is_high_volume |-> FALSE, is_high_volatility |-> FALSE, is_large_cap |-> FALSE]

\* `return None`
NoneRecord == [BlankRecord EXCEPT !.kind = "None"]

\* The expressions of the dict literal of get_optimized_stock_data that can
\* raise TypeError on a None or string value of info.
OptimizedRaises(i, bar) ==
    \/ Truthy(i.marketCap) /\ i.marketCap.t # "int"
        \* round(info.get('marketCap', 0) / 1e9, 2) if info.get('marketCap') else 0
    \/ Optimized_categorize_volume(bar.Volume, dict_get(i.averageVolume, PyInt(bar.Volume)))
            = TypeError
    \/ Optimized_categorize_market_cap(dict_get(i.marketCap, PyInt(0))) = TypeError
    \/ dict_get(i.marketCap, PyInt(0)).t # "int"
        \* info.get('marketCap', 0) > 10e9

\* get_optimized_stock_data: None when the history is empty or anything raises.
\* Only the fields derived from the modelled inputs are kept; the other values
\* of info (names, ratios, 52-week range) are taken to be well-typed.
get_optimized_stock_data(i, bar) ==
    IF bar.empty THEN NoneRecord
    ELSE IF OptimizedRaises(i, bar) THEN NoneRecord
    ELSE [BlankRecord EXCEPT
            !.kind = "optimized",
            !.current_price = bar.Close,
            !.price_change_percent = ChangePercent(bar),
            !.volatility = Number(Round2(VolatilityPercent(bar))),
            !.rsi_14 = Number(0),
            !.performance_1w = Number(0),
            !.performance_1m = Number(0),
            !.performance_1y = Number(0),
            !.price_category = Optimized_categorize_price(bar.Close),
            !.change_category = Optimized_categorize_change(ChangePercent(bar)),
            !.volume_category =
                Optimized_categorize_volume(bar.Volume,
                                            dict_get(i.averageVolume, PyInt(bar.Volume))),
            !.market_cap_category =
                Optimized_categorize_market_cap(dict_get(i.marketCap, PyInt(0))),
            !.sector_category =
                Optimized_categorize_sector(dict_get(i.sector, PyStr(<<"Unknown">>))),
            !.volatility_category = Optimized_categorize_volatility(VolatilityPercent(bar)),
            !.is_high_volume =
                IF Truthy(i.averageVolume)
                THEN FGt(Float(bar.Volume), FMul(Float(i.averageVolume.v), Num(3, 2)))
                ELSE FALSE,
            !.is_high_volatility =
                IF bar.Close # 0 THEN FGt(VolatilityPercent(bar), Float(5)) ELSE FALSE,
            !.is_large_cap = dict_get(i.marketCap, PyInt(0)).v > 10000]

\* The expressions of the dict literal of get_enhanced_stock_data that can
\* raise TypeError.
EnhancedRaises(i, bar) ==
    \/ Exporter_categorize_volume(bar.Volume, dict_get(i.averageVolume, PyInt(bar.Volume)))
            = TypeError
    \/ Exporter_categorize_market_cap(dict_get(i.marketCap, PyInt(0))) = TypeError

\* get_enhanced_stock_data
get_enhanced_stock_data(i, bar) ==
    IF bar.empty THEN NoneRecord
    ELSE IF EnhancedRaises(i, bar) THEN NoneRecord
    ELSE [BlankRecord EXCEPT
            !.kind = "enhanced",
            !.current_price = bar.Close,
            !.price_change_percent = ChangePercent(bar),
            !.volatility = Number(Round2(VolatilityPercent(bar))),
            !.rsi_14 = NotAvailable,
            !.performance_1w = NotAvailable,
            !.performance_1m = NotAvailable,
            !.performance_1y = NotAvailable,
            !.price_category = Exporter_categorize_price(bar.Close),
            !.change_category = Exporter_categorize_change(ChangePercent(bar)),
            !.volume_category =
                Exporter_categorize_volume(bar.Volume,
                                           dict_get(i.averageVolume, PyInt(bar.Volume))),
            !.market_cap_category =
                Exporter_categorize_market_cap(dict_get(i.marketCap, PyInt(0)))]

\* ---- LookerStudioOptimized.export_performance_data, one symbol

\* round(((current_price - old) / old) * 100, 2), in hundredths.
Performance(current_price, old) ==
    Round2(FMul(FDiv(Float(current_price - old), Float(old)), Float(100)))

\* hist['Close'].iloc[-k]
ILocBack(hist, k) == hist[Len(hist) - k + 1]

SetMax(S) == CHOOSE x \in S : \A y \in S : y <= x
SetMin(S) == CHOOSE x \in S : \A y \in S : x <= y

NoRow ==
    [kind |-> "none", bars |-> 0, performance_1d |-> 0, performance_1w |-> 0,
     performance_1m |-> 0, performance_3m |-> 0, performance_6m |-> 0,
     performance_1y |-> 0, best_performance |-> 0, worst_performance |-> 0]

\* The dict appended to performance_data for a non-empty history (numbers in
\* hundredths of a percent); bars records len(hist).
PerformanceRow(hist) ==
    LET current_price == ILocBack(hist, 1)
        start_price == hist[1]
        p1d == IF Len(hist) >= 2 THEN Performance(current_price, ILocBack(hist, 2)) ELSE 0
        p1w == IF Len(hist) >= 7 THEN Performance(current_price, ILocBack(hist, 7)) ELSE 0
        p1m == IF Len(hist) >= 30 THEN Performance(current_price, ILocBack(hist, 30)) ELSE 0
        p3m == IF Len(hist) >= 90 THEN Performance(current_price, ILocBack(hist, 90)) ELSE 0
        p6m == IF Len(hist) >= 180 THEN Performance(current_price, ILocBack(hist, 180)) ELSE 0
        p1y == Performance(current_price, start_price)
    IN  [kind |-> "row", bars |-> Len(hist), performance_1d |-> p1d,
         performance_1w |-> p1w, performance_1m |-> p1m, performance_3m |-> p3m,
         performance_6m |-> p6m, performance_1y |-> p1y,
         best_performance |-> SetMax({p1d, p1w, p1m, p3m, p6m, p1y}),
         worst_performance |-> SetMin({p1d, p1w, p1m, p3m, p6m, p1y})]

-----------------------------------------------------------------------------
\* StockPriceMonitor (src/stock_price_monitor.py).  A csv file is absent or a
\* sequence of rows; a row is the header row or a data row, and carries the
\* column names in the order its fields were written.

headers ==
    <<"timestamp", "symbol", "price", "change", "change_percent", "volume",
      "market_cap", "previous_close", "open", "high", "low", "day_range",
      "fifty_two_week_high", "fifty_two_week_low">>

\* The keys of the dict literal of get_stock_data, in insertion order.
DataKeys ==
    <<"timestamp", "symbol", "price", "change", "change_percent", "volume",
      "market_cap", "previous_close", "open", "high", "low", "day_range",
      "fifty_two_week_high", "fifty_two_week_low">>

NoFile == [exists |-> FALSE, rows |-> << >>]

HeaderRow == [kind |-> "header", columns |-> headers, symbol |-> ""]

\* The row to_csv writes for one dict of the list: the DataFrame's columns are
\* the dict's keys in insertion order.
DataRow(d) == [kind |-> "data", columns |-> d.keys, symbol |-> d.symbol]

\* An initialisation that writes the header whether or not the file exists
\* (to_csv in its default mode 'w' replaces the file).
initialize_csv_always(file) == [exists |-> TRUE, rows |-> <<HeaderRow>>]

\* _initialize_csv: the header is written only when the file does not exist.
initialize_csv(file) ==
    IF ~file.exists THEN [exists |-> TRUE, rows |-> <<HeaderRow>>] ELSE file

\* save_to_csv(data): nothing for an empty list, else the rows are appended
\* (mode='a', header=False).
save_to_csv(file, rows) ==
    IF rows = << >> THEN file
    ELSE [exists |-> TRUE,
          rows |-> file.rows \o [i \in 1..Len(rows) |-> DataRow(rows[i])]]

\* What the provider does for one symbol: history returned, empty history,
\* or an exception raised by ticker.info / ticker.history / the dict literal.
Outcomes == {"ok", "empty", "raise"}

PyNone == [kind |-> "None", symbol |-> "", keys |-> << >>]

Raised == [kind |-> "raise", symbol |-> "", keys |-> << >>]

\* get_stock_data without the try/except: the exception leaves the function.
get_stock_data_uncaught(symbol, outcome) ==
    CASE outcome = "ok" -> [kind |-> "dict", symbol |-> symbol, keys |-> DataKeys]
      [] outcome = "empty" -> PyNone
      [] OTHER -> Raised

\* get_stock_data(symbol): the dict, or None for an empty history and for any
\* Exception raised inside the try block.
get_stock_data(symbol, outcome) ==
    CASE outcome = "ok" -> [kind |-> "dict", symbol |-> symbol, keys |-> DataKeys]
      [] outcome = "empty" -> PyNone
      [] OTHER -> PyNone

NoFetch ==
    [kind |-> "none", symbols |-> << >>, outcomes |-> << >>, calls |-> << >>,
     all_data |-> << >>]

\* The loop of get_all_stock_data from the i-th symbol on: calls holds the
\* symbols get_stock_data was called for, all_data the dicts collected.  An
\* exception leaving get_stock_data would leave the loop.
RECURSIVE FetchLoop(_, _, _, _, _)
FetchLoop(symbols, outcomes, i, calls, all_data) ==
    IF i > Len(symbols)
    THEN [kind |-> "returned", symbols |-> symbols, outcomes |-> outcomes,
          calls |-> calls, all_data |-> all_data]
    ELSE LET d == get_stock_data(symbols[i], outcomes[i])
         IN  IF d.kind = "raise"
             THEN [kind |-> "raised", symbols |-> symbols, outcomes |-> outcomes,
                   calls |-> Append(calls, symbols[i]), all_data |-> all_data]
             ELSE FetchLoop(symbols, outcomes, i + 1, Append(calls, symbols[i]),
                            IF d.kind = "dict" THEN Append(all_data, d) ELSE all_data)

get_all_stock_data(symbols, outcomes) == FetchLoop(symbols, outcomes, 1, << >>, << >>)

NoMonitor == [constructed |-> FALSE, symbols |-> << >>, op |-> "none", data |-> << >>]

InitMonitor ==
    /\ monitor = NoMonitor
    /\ fetch = NoFetch
    /\ csv = NoFile

\* ---- The export operations of LookerStudioOptimized
\* (src/looker_studio_optimized.py) and LookerStudioExporter
\* (src/looker_studio_exporter.py).  An export file holds one row per record,
\* stamped with the time of the call that wrote it.

OptimizedExports == {"dashboard", "time_series", "summary", "performance"}

ExporterExports == {"daily", "historical", "stock_summary"}

ExportOps == OptimizedExports \cup ExporterExports

\* self.dashboard_data_file, ..., self.summary_file
FileOf(op) ==
    CASE op = "dashboard" -> "dashboard_data.csv"
      [] op = "time_series" -> "time_series_data.csv"
      [] op = "summary" -> "summary_data.csv"
      [] op = "performance" -> "performance_data.csv"
      [] op = "daily" -> "daily_stock_data.csv"
      [] op = "historical" -> "historical_stock_data.csv"
      [] OTHER -> "stock_summary.csv"

FileNames == {FileOf(op) : op \in ExportOps}

\* What the fetch of one symbol gives an export: a record, or None (an empty
\* history, or an exception caught for that symbol).
Yields == {"data", "None"}

\* The records an export collects at time `at`: one per symbol whose fetch
\* gives data, in the order of self.symbols.
RECURSIVE Collected(_, _, _, _)
Collected(symbols, outcomes, i, at) ==
    IF i > Len(symbols) THEN << >>
    ELSE IF outcomes[i] = "data"
         THEN <<[symbol |-> symbols[i], at |-> at]>>
                  \o Collected(symbols, outcomes, i + 1, at)
         ELSE Collected(symbols, outcomes, i + 1, at)

\* An export that writes its list whether or not it is empty.
export_always_writes(file, records) ==
    [returned |-> IF records # << >> THEN "DataFrame" ELSE "None",
     file |-> [exists |-> TRUE, rows |-> records]]

\* The tail shared by the seven export operations: `if all_data:` the frame
\* replaces the file (to_csv, mode 'w') and is returned, else None is returned
\* and the file is not touched.
export(file, records) ==
    IF records # << >>
    THEN [returned |-> "DataFrame", file |-> [exists |-> TRUE, rows |-> records]]
    ELSE [returned |-> "None", file |-> file]

NoExporter == [class |-> "none", symbols |-> << >>, gc |-> FALSE]

NotCalled == [op \in ExportOps |-> "-"]

NoExport ==
    [op |-> "none", records |-> 0, returned |-> NotCalled, raised |-> FALSE,
     upload |-> FALSE, uploaded |-> {}]

\* files_to_upload, in the order of the list
files_to_upload == <<"dashboard", "time_series", "summary", "performance">>

\* What the environment does to one export_all_data call: nothing, the first
\* to_csv raises OSError, or the first gspread call raises.
IoOutcomes == {"ok", "disk_error", "api_error"}

\* upload_to_google_sheets: False without self.gc; else every file of
\* files_to_upload that exists on disk is read back and replaces its
\* worksheet; any exception is caught and gives False.
upload_to_google_sheets(gc, fs, sh, io) ==
    IF ~gc \/ io = "api_error"
    THEN [returned |-> FALSE, sheets |-> sh, uploaded |-> {}]
    ELSE [returned |-> TRUE,
          sheets |-> [f \in FileNames |->
                        IF \E op \in OptimizedExports : f = FileOf(op) /\ fs[f].exists
                        THEN fs[f] ELSE sh[f]],
          uploaded |-> {FileOf(op) : op \in {o \in OptimizedExports :
                                                  fs[FileOf(o)].exists}}]

\* The four exports of export_all_data from the i-th on, in order.
RECURSIVE ExportsFrom(_, _, _, _, _, _, _)
ExportsFrom(i, symbols, fs, returned, outcomes, io, at) ==
    IF i > Len(files_to_upload)
    THEN [kind |-> "returned", files |-> fs, returned |-> returned]
    ELSE LET op == files_to_upload[i]
             all_data == Collected(symbols, outcomes[op], 1, at)
             r == export(fs[FileOf(op)], all_data)
         IN  IF all_data # << >> /\ io = "disk_error"
             THEN [kind |-> "raised", files |-> fs, returned |-> returned]
             ELSE ExportsFrom(i + 1, symbols, [fs EXCEPT ![FileOf(op)] = r.file],
                              [returned EXCEPT ![op] = r.returned], outcomes, io, at)

\* export_all_data(upload_to_sheets): the four exports, then the upload when
\* asked for, then the dict of the four results.
export_all_data(self, fs, sh, outcomes, upload_to_sheets, io, at) ==
    LET e == ExportsFrom(1, self.symbols, fs, NotCalled, outcomes, io, at)
        u == upload_to_google_sheets(self.gc, e.files, sh, io)
    IN  IF e.kind = "raised"
        THEN [kind |-> "raised", files |-> e.files, sheets |-> sh,
              returned |-> e.returned, uploaded |-> {}]
        ELSE IF upload_to_sheets
        THEN [kind |-> "returned", files |-> e.files, sheets |-> u.sheets,
              returned |-> e.returned, uploaded |-> u.uploaded]
        ELSE [kind |-> "returned", files |-> e.files, sheets |-> sh,
              returned |-> e.returned, uploaded |-> {}]

InitExport ==
    /\ exporter = NoExporter
    /\ files = [f \in FileNames |-> NoFile]
    /\ sheets = [f \in FileNames |-> NoFile]
    /\ exported = NoExport
    /\ now = 0

\* ---- AutoUpdater (src/auto_updater.py).  last_update is 0 for None, else
\* the time of the update that set it.

\* bool(result) of `if result:` for the dict export_all_data returns: a dict
\* is true when it has at least one key, whatever its values.
PyBool(result) == DOMAIN result # {}

\* The dict export_all_data returns: its four keys and their values.
ResultDict(returned) == [op \in OptimizedExports |-> returned[op]]

\* update_data: export_all_data(upload_to_sheets=True); `if result:` sets
\* last_update and reports success, else reports failure; an Exception is
\* logged and not propagated.  r is what export_all_data did.
update_data(self, r, at) ==
    IF r.kind = "raised"
    THEN [self EXCEPT !.branch = "except", !.finished = @ + 1]
    ELSE IF PyBool(ResultDict(r.returned))
    THEN [self EXCEPT !.last_update = at, !.branch = "success", !.finished = @ + 1]
    ELSE [self EXCEPT !.branch = "failure", !.finished = @ + 1]

\* The three jobs schedule_updates registers, each calling update_data.
ScheduledJobs == 3

\* A handler that only clears the flag and returns to the interrupted code.
signal_handler_returns(self) ==
    [self |-> [self EXCEPT !.running = FALSE, !.signalled = TRUE], exits |-> FALSE]

\* _signal_handler: running = False, then sys.exit(0) raises SystemExit at the
\* point the signal interrupted.
signal_handler(self) ==
    [self |-> [self EXCEPT !.running = FALSE, !.signalled = TRUE], exits |-> TRUE]

NoUpdater ==
    [pc |-> "none", running |-> FALSE, last_update |-> 0, branch |-> "none",
     started |-> 0, finished |-> 0, polls |-> 0, due |-> 0,
     signalled |-> FALSE, left_by |-> "none", left_at |-> "none"]

InitUpdater == updater = NoUpdater

\* ---- AdvancedStockDashboard (src/advanced_streamlit_dashboard.py): the
\* watchlist of the sidebar and the portfolio page.  A dict is a function from
\* its keys.

\* x in list
PyIn(x, list) == \E i \in 1..Len(list) : list[i] = x

\* list.remove(x): the list without its first x.
RECURSIVE list_remove(_, _)
list_remove(list, x) ==
    IF list = << >> THEN << >>
    ELSE IF Head(list) = x THEN Tail(list)
    ELSE <<Head(list)>> \o list_remove(Tail(list), x)

\* An add that appends without looking.
watchlist_add_unchecked(watchlist, new_symbol) ==
    IF new_symbol # "" THEN Append(watchlist, new_symbol) ELSE watchlist

\* The add button with new_symbol in the text input: a non-empty symbol that
\* is not in the watchlist is appended.
watchlist_add(watchlist, new_symbol) ==
    IF new_symbol # ""
    THEN IF ~PyIn(new_symbol, watchlist) THEN Append(watchlist, new_symbol) ELSE watchlist
    ELSE watchlist

\* The symbols given to show_portfolio_analysis, in order.
PortfolioSymbols == <<"AAPL", "MSFT", "7203.T">>

\* st.slider(..., 0, 100, 0)
MinWeight == 0

MaxWeight == 100

DefaultWeight == 0

EmptyDict == [s \in {} |-> 0]

\* The local dict portfolio: the symbols whose slider is above 0, with their weight.
PortfolioOf(weights) ==
    [s \in {PortfolioSymbols[i] : i \in {j \in 1..Len(PortfolioSymbols) :
                                              weights[PortfolioSymbols[j]] > 0}}
        |-> weights[s]]

\* sum(portfolio.values())
RECURSIVE SumValues(_, _)
SumValues(portfolio, keys) ==
    IF keys = {} THEN 0
    ELSE LET k == CHOOSE k \in keys : TRUE
         IN  portfolio[k] + SumValues(portfolio, keys \ {k})

\* A page that offers the save button for every non-empty configuration.
show_portfolio_analysis_any_total(saved, weights, click) ==
    LET portfolio == PortfolioOf(weights)
    IN  IF portfolio = EmptyDict
        THEN [portfolio |-> saved, message |-> "none"]
        ELSE IF click
             THEN [portfolio |-> portfolio, message |-> "saved"]
             ELSE [portfolio |-> saved, message |-> "success"]

\* One run of show_portfolio_analysis with the sliders at `weights`; click says
\* whether the user goes for the save button.  The button exists only in the
\* branch total_weight == 100.
show_portfolio_analysis(saved, weights, click) ==
    LET portfolio == PortfolioOf(weights)
        total_weight == SumValues(portfolio, DOMAIN portfolio)
    IN  IF portfolio = EmptyDict
        THEN [portfolio |-> saved, message |-> "none"]
        ELSE IF total_weight # 100
        THEN [portfolio |-> saved, message |-> "warning"]
        ELSE IF click
             THEN [portfolio |-> portfolio, message |-> "saved"]
             ELSE [portfolio |-> saved, message |-> "success"]

InitDashboard ==
    /\ session_state = [portfolio |-> EmptyDict, watchlist |-> << >>]
    /\ widgets = [weights |-> [i \in {PortfolioSymbols[j] : j \in 1..Len(PortfolioSymbols)}
                                 |-> DefaultWeight],
                  event |-> "none", arg |-> "", message |-> "none"]

InitApp ==
    /\ InitMonitor
    /\ InitExport
    /\ InitUpdater
    /\ InitDashboard

-----------------------------------------------------------------------------
\* The collector and the calls.

Steps == {-1, 0, 1}

\* The columns of the table yf.download returns.
OHLCV == {"Open", "High", "Low", "Close", "Volume"}

\* The columns calculate_technical_indicators assigns.
IndicatorColumns ==
    {"MA_5", "MA_20", "MA_50", "RSI", "BB_Middle", "BB_Upper", "BB_Lower",
     "MACD", "MACD_Signal", "MACD_Histogram"}

NoInfo == [marketCap |-> Absent, averageVolume |-> Absent, sector |-> SectorAbsent]

\* No bucket function has been called yet.
NoCall == [fn |-> "none", args |-> << >>, label |-> ""]

\* hist.empty
EmptyBar == [empty |-> TRUE, Close |-> 0, Open |-> 0, High |-> 0, Low |-> 0, Volume |-> 0]

Init ==
    /\ data = << >>
    /\ df = << >>
    /\ pc = "collect"
    /\ columns = [data |-> OHLCV, df |-> {}]
    /\ perf = NoRow
    /\ info = NoInfo
    /\ latest = EmptyBar
    /\ record = BlankRecord
    /\ call = NoCall
    /\ InitApp

\* The collector hands over one more bar (ascending timestamps, positive close).
Collect(c) ==
    /\ pc = "collect"
    /\ Len(data) < MaxLen
    /\ c > 0
    /\ CASE data = << >> -> c = StartClose
         [] Len(data) \in 1..FreeBars -> c - data[Len(data)] \in Steps
         [] OTHER -> c - data[Len(data)] = data[Len(data)] - data[Len(data) - 1]
    /\ data' = Append(data, c)
    /\ UNCHANGED <<df, pc, columns, perf, snapshotVars, appVars>>

\* The same computation without the copy, df = data: the columns are added to
\* the caller's table.
CalculateInPlace ==
    /\ pc = "collect"
    /\ df' = data
    /\ columns' = [data |-> columns.data \cup IndicatorColumns,
                   df |-> columns.data \cup IndicatorColumns]
    /\ pc' = "done"
    /\ UNCHANGED <<data, perf, snapshotVars, appVars>>

\* calculate_technical_indicators(data): df = data.copy(), then the columns
\* above are added to df, and df is returned.
Calculate ==
    /\ pc = "collect"
    /\ df' = data
    /\ columns' = [data |-> columns.data, df |-> columns.data \cup IndicatorColumns]
    /\ pc' = "done"
    /\ UNCHANGED <<data, perf, snapshotVars, appVars>>

Next ==
    \/ \E c \in (StartClose - MaxLen)..(StartClose + MaxLen) : Collect(c)
    \/ Calculate

Spec == Init /\ [][Next]_vars

\* The same call on the series of at most MaxRsiLen bars.
CollectRsi(c) ==
    /\ Len(data) < MaxRsiLen
    /\ Collect(c)

NextRsi ==
    \/ \E c \in (StartClose - MaxLen)..(StartClose + MaxLen) : CollectRsi(c)
    \/ Calculate

SpecRsi == Init /\ [][NextRsi]_vars

\* The same call on short series of arbitrary small closes, where the
\* exponential averages are exactly representable.
CollectEma(c) ==
    /\ pc = "collect"
    /\ Len(data) < MaxEmaLen
    /\ data' = Append(data, c)
    /\ UNCHANGED <<df, pc, columns, perf, snapshotVars, appVars>>

NextEma ==
    \/ \E c \in 1..MaxEmaClose : CollectEma(c)
    \/ Calculate

SpecEma == Init /\ [][NextEma]_vars

\* export_performance_data for one symbol whose history is data: a row is
\* emitted unless the history is empty.
ExportPerformance ==
    /\ pc = "collect"
    /\ perf' = IF data = << >> THEN NoRow ELSE PerformanceRow(data)
    /\ pc' = "done"
    /\ UNCHANGED <<data, df, columns, snapshotVars, appVars>>

NextPerf ==
    \/ \E c \in (StartClose - MaxLen)..(StartClose + MaxLen) : Collect(c)
    \/ ExportPerformance

SpecPerf == Init /\ [][NextPerf]_vars

\* Snapshots the data provider can return.
MarketCaps == {Absent, None, NA, PyInt(0), PyInt(100), PyInt(10000), PyInt(200000)}

AverageVolumes == {Absent, None, PyInt(-100), PyInt(0), PyInt(100), PyInt(200)}

Sectors ==
    {SectorAbsent, SectorNone, PyStr(<< >>), PyStr(<<"Unknown">>),
     PyStr(<<"Technology">>), PyStr(<<"Financial", " ", "Services">>),
     PyStr(<<"Healthcare">>), PyStr(<<"Consumer", " ", "Cyclical">>),
     PyStr(<<"Consumer", " ", "Defensive">>), PyStr(<<"Energy">>)}

Bars ==
    [empty : {FALSE}, Close : {-100, 0, 100, 1000}, Open : {0, 100},
     High : {100, 105}, Low : {95, 100}, Volume : {0, 100}]

InitSnapshot ==
    /\ data = << >>
    /\ df = << >>
    /\ pc = "collect"
    /\ columns = [data |-> OHLCV, df |-> {}]
    /\ perf = NoRow
    /\ info \in [marketCap : MarketCaps, averageVolume : AverageVolumes, sector : Sectors]
    /\ latest \in Bars \cup {EmptyBar}
    /\ record = BlankRecord
    /\ call = NoCall
    /\ InitApp

GetOptimizedStockData ==
    /\ record.kind = "pending"
    /\ record' = get_optimized_stock_data(info, latest)
    /\ UNCHANGED <<info, latest, call, seriesVars, appVars>>

GetEnhancedStockData ==
    /\ record.kind = "pending"
    /\ record' = get_enhanced_stock_data(info, latest)
    /\ UNCHANGED <<info, latest, call, seriesVars, appVars>>

NextSnapshot ==
    \/ GetOptimizedStockData
    \/ GetEnhancedStockData

SpecSnapshot == InitSnapshot /\ [][NextSnapshot]_vars

\* The bucket functions called on their own.  Arguments range over the values
\* within Margin of every threshold of either class, of zero and of a negative
\* and a large value.
Around(points) == UNION {(q - Margin)..(q + Margin) : q \in points}

\* prices in cents
PriceInputs == Around({-1000, 0, 1000, 2500, 5000, 10000, 20000, 30000})

\* change percents in hundredths
ChangeInputs == Around({-1000, -500, -200, -100, -50, 0, 50, 100, 200, 500, 1000})

VolumeInputs == -1..MaxVolume

AvgVolumeInputs == {PyInt(a) : a \in -1..MaxAvgVolume}

\* market capitalisations in millions of dollars
MarketCapInputs == {PyInt(m) : m \in Around({-1000, 0, 300, 2000, 10000, 200000, 300000})}

\* volatility percents
VolatilityInputs == {Num(h, 100) : h \in Around({-100, 0, 100, 200, 300, 500, 1000})}

SectorInputs == Sectors \ {SectorAbsent}

ExporterCategorizePrice(price) ==
    /\ call' = [fn |-> "Exporter._categorize_price", args |-> <<price>>,
                label |-> Exporter_categorize_price(price)]
    /\ UNCHANGED <<seriesVars, info, latest, record, appVars>>

ExporterCategorizeChange(change_percent) ==
    /\ call' = [fn |-> "Exporter._categorize_change", args |-> <<change_percent>>,
                label |-> Exporter_categorize_change(change_percent)]
    /\ UNCHANGED <<seriesVars, info, latest, record, appVars>>

ExporterCategorizeVolume(volume, avg_volume) ==
    /\ call' = [fn |-> "Exporter._categorize_volume", args |-> <<volume, avg_volume>>,
                label |-> Exporter_categorize_volume(volume, avg_volume)]
    /\ UNCHANGED <<seriesVars, info, latest, record, appVars>>

ExporterCategorizeMarketCap(market_cap) ==
    /\ call' = [fn |-> "Exporter._categorize_market_cap", args |-> <<market_cap>>,
                label |-> Exporter_categorize_market_cap(market_cap)]
    /\ UNCHANGED <<seriesVars, info, latest, record, appVars>>

OptimizedCategorizePrice(price) ==
    /\ call' = [fn |-> "Optimized._categorize_price", args |-> <<price>>,
                label |-> Optimized_categorize_price(price)]
    /\ UNCHANGED <<seriesVars, info, latest, record, appVars>>

OptimizedCategorizeChange(change_percent) ==
    /\ call' = [fn |-> "Optimized._categorize_change", args |-> <<change_percent>>,
                label |-> Optimized_categorize_change(change_percent)]
    /\ UNCHANGED <<seriesVars, info, latest, record, appVars>>

OptimizedCategorizeVolume(volume, avg_volume) ==
    /\ call' = [fn |-> "Optimized._categorize_volume", args |-> <<volume, avg_volume>>,
                label |-> Optimized_categorize_volume(volume, avg_volume)]
    /\ UNCHANGED <<seriesVars, info, latest, record, appVars>>

OptimizedCategorizeMarketCap(market_cap) ==
    /\ call' = [fn |-> "Optimized._categorize_market_cap", args |-> <<market_cap>>,
                label |-> Optimized_categorize_market_cap(market_cap)]
    /\ UNCHANGED <<seriesVars, info, latest, record, appVars>>

OptimizedCategorizeSector(sector) ==
    /\ call' = [fn |-> "Optimized._categorize_sector", args |-> <<sector>>,
                label |-> Optimized_categorize_sector(sector)]
    /\ UNCHANGED <<seriesVars, info, latest, record, appVars>>

OptimizedCategorizeVolatility(volatility) ==
    /\ call' = [fn |-> "Optimized._categorize_volatility", args |-> <<volatility>>,
                label |-> Optimized_categorize_volatility(volatility)]
    /\ UNCHANGED <<seriesVars, info, latest, record, appVars>>

NextCategorize ==
    \/ \E price \in PriceInputs : ExporterCategorizePrice(price)
    \/ \E change_percent \in ChangeInputs : ExporterCategorizeChange(change_percent)
    \/ \E volume \in VolumeInputs, avg_volume \in AvgVolumeInputs :
            ExporterCategorizeVolume(volume, avg_volume)
    \/ \E market_cap \in MarketCapInputs : ExporterCategorizeMarketCap(market_cap)
    \/ \E price \in PriceInputs : OptimizedCategorizePrice(price)
    \/ \E change_percent \in ChangeInputs : OptimizedCategorizeChange(change_percent)
    \/ \E volume \in VolumeInputs, avg_volume \in AvgVolumeInputs :
            OptimizedCategorizeVolume(volume, avg_volume)
    \/ \E market_cap \in MarketCapInputs : OptimizedCategorizeMarketCap(market_cap)
    \/ \E sector \in SectorInputs : OptimizedCategorizeSector(sector)
    \/ \E volatility \in VolatilityInputs : OptimizedCategorizeVolatility(volatility)

SpecCategorize == Init /\ [][NextCategorize]_vars

\* StockPriceMonitor: constructions and calls on one output directory.
Symbols == {"AAPL", "7203.T"}

SymbolLists == UNION {[1..n -> Symbols] : n \in 0..MaxSymbols}

OutcomeLists == UNION {[1..n -> Outcomes] : n \in 0..MaxSymbols}

\* The lists of dicts get_all_stock_data can return.
DictLists ==
    {[i \in 1..Len(l) |-> [kind |-> "dict", symbol |-> l[i], keys |-> DataKeys]] :
        l \in SymbolLists}

\* StockPriceMonitor(symbols, output_dir)
Construct(symbols) ==
    /\ monitor' = [constructed |-> TRUE, symbols |-> symbols, op |-> "__init__",
                   data |-> << >>]
    /\ csv' = initialize_csv(csv)
    /\ UNCHANGED <<fetch, seriesVars, snapshotVars, exportVars, updater, dashboardVars>>

GetAllStockData(outcomes) ==
    /\ monitor.constructed
    /\ Len(outcomes) = Len(monitor.symbols)
    /\ fetch' = get_all_stock_data(monitor.symbols, outcomes)
    /\ monitor' = [monitor EXCEPT !.op = "get_all_stock_data", !.data = << >>]
    /\ UNCHANGED <<csv, seriesVars, snapshotVars, exportVars, updater, dashboardVars>>

\* save_to_csv(data), with a list of dicts as get_all_stock_data returns them
SaveToCsv(rows) ==
    /\ monitor.constructed
    /\ Len(csv.rows) + Len(rows) <= MaxRows
    /\ csv' = save_to_csv(csv, rows)
    /\ monitor' = [monitor EXCEPT !.op = "save_to_csv", !.data = rows]
    /\ UNCHANGED <<fetch, seriesVars, snapshotVars, exportVars, updater, dashboardVars>>

\* run_single_fetch: get_all_stock_data, then save_to_csv of its result (a
\* local of run_single_fetch)
RunSingleFetch(outcomes) ==
    /\ monitor.constructed
    /\ Len(outcomes) = Len(monitor.symbols)
    /\ LET result == get_all_stock_data(monitor.symbols, outcomes)
       IN  /\ Len(csv.rows) + Len(result.all_data) <= MaxRows
           /\ csv' = IF result.kind = "raised" THEN csv
                      ELSE save_to_csv(csv, result.all_data)
           /\ monitor' = [monitor EXCEPT !.op = "run_single_fetch",
                                         !.data = result.all_data]
    /\ UNCHANGED <<fetch, seriesVars, snapshotVars, exportVars, updater, dashboardVars>>

\* Constructions and get_all_stock_data calls.
NextFetch ==
    \/ \E symbols \in SymbolLists : Construct(symbols)
    \/ \E outcomes \in OutcomeLists : GetAllStockData(outcomes)

SpecFetch == Init /\ [][NextFetch]_vars

\* Constructions and the calls that write the file.
NextMonitor ==
    \/ \E symbols \in SymbolLists : Construct(symbols)
    \/ \E rows \in DictLists : SaveToCsv(rows)
    \/ \E outcomes \in OutcomeLists : RunSingleFetch(outcomes)

SpecMonitor == Init /\ [][NextMonitor]_vars

\* The symbol lists given to LookerStudioOptimized.
ExportSymbolLists == {<<"AAPL">>}

\* The symbol lists given to LookerStudioExporter.
ExporterSymbolLists == {<<"AAPL">>, <<"AAPL", "7203.T">>}

ExportOutcomeLists == UNION {[1..n -> Yields] : n \in 1..2}

\* LookerStudioOptimized(symbols); gc is set when the service account file
\* exists and authorises.
ConstructOptimized(symbols, gc) ==
    /\ exporter' = [class |-> "LookerStudioOptimized", symbols |-> symbols, gc |-> gc]
    /\ UNCHANGED <<files, sheets, exported, now, seriesVars, snapshotVars, monitorVars,
                   updater, dashboardVars>>

\* LookerStudioExporter(symbols)
ConstructExporter(symbols) ==
    /\ exporter' = [class |-> "LookerStudioExporter", symbols |-> symbols, gc |-> FALSE]
    /\ UNCHANGED <<files, sheets, exported, now, seriesVars, snapshotVars, monitorVars,
                   updater, dashboardVars>>

\* One export operation op of the live instance, under the given fetch
\* outcomes of its symbols.
ExportCall(op, outcomes) ==
    /\ now < MaxExports
    /\ Len(outcomes) = Len(exporter.symbols)
    /\ now' = now + 1
    /\ LET all_data == Collected(exporter.symbols, outcomes, 1, now + 1)
           r == export(files[FileOf(op)], all_data)
       IN  /\ files' = [files EXCEPT ![FileOf(op)] = r.file]
           /\ exported' = [op |-> op, records |-> Len(all_data),
                           returned |-> [NotCalled EXCEPT ![op] = r.returned],
                           raised |-> FALSE, upload |-> FALSE, uploaded |-> {}]
    /\ UNCHANGED <<exporter, sheets, seriesVars, snapshotVars, monitorVars, updater, dashboardVars>>

ExportDashboardData(outcomes) ==
    /\ exporter.class = "LookerStudioOptimized"
    /\ ExportCall("dashboard", outcomes)

ExportTimeSeriesData(outcomes) ==
    /\ exporter.class = "LookerStudioOptimized"
    /\ ExportCall("time_series", outcomes)

ExportSummaryData(outcomes) ==
    /\ exporter.class = "LookerStudioOptimized"
    /\ ExportCall("summary", outcomes)

ExportPerformanceData(outcomes) ==
    /\ exporter.class = "LookerStudioOptimized"
    /\ ExportCall("performance", outcomes)

ExporterExportDailyData(outcomes) ==
    /\ exporter.class = "LookerStudioExporter"
    /\ ExportCall("daily", outcomes)

ExporterExportHistoricalData(outcomes) ==
    /\ exporter.class = "LookerStudioExporter"
    /\ ExportCall("historical", outcomes)

ExporterExportSummaryData(outcomes) ==
    /\ exporter.class = "LookerStudioExporter"
    /\ ExportCall("stock_summary", outcomes)

NextExport ==
    \/ \E symbols \in ExportSymbolLists, gc \in BOOLEAN : ConstructOptimized(symbols, gc)
    \/ \E symbols \in ExporterSymbolLists : ConstructExporter(symbols)
    \/ \E outcomes \in ExportOutcomeLists : ExportDashboardData(outcomes)
    \/ \E outcomes \in ExportOutcomeLists : ExportTimeSeriesData(outcomes)
    \/ \E outcomes \in ExportOutcomeLists : ExportSummaryData(outcomes)
    \/ \E outcomes \in ExportOutcomeLists : ExportPerformanceData(outcomes)
    \/ \E outcomes \in ExportOutcomeLists : ExporterExportDailyData(outcomes)
    \/ \E outcomes \in ExportOutcomeLists : ExporterExportHistoricalData(outcomes)
    \/ \E outcomes \in ExportOutcomeLists : ExporterExportSummaryData(outcomes)

SpecExport == Init /\ [][NextExport]_vars

\* The fetch outcomes of the four exports of one export_all_data call.
AllOutcomes(symbols) ==
    [OptimizedExports -> {o \in ExportOutcomeLists : Len(o) = Len(symbols)}]

\* export_all_data(upload_to_sheets) on the live LookerStudioOptimized
ExportAllData(upload_to_sheets, io) ==
    /\ exporter.class = "LookerStudioOptimized"
    /\ now < MaxExports
    /\ now' = now + 1
    /\ \E outcomes \in AllOutcomes(exporter.symbols) :
          LET r == export_all_data(exporter, files, sheets, outcomes,
                                   upload_to_sheets, io, now + 1)
          IN  /\ files' = r.files
              /\ sheets' = r.sheets
              /\ exported' = [op |-> "export_all_data", records |-> 0,
                              returned |-> r.returned, raised |-> r.kind = "raised",
                              upload |-> upload_to_sheets, uploaded |-> r.uploaded]
    /\ UNCHANGED <<exporter, seriesVars, snapshotVars, monitorVars, updater, dashboardVars>>

NextExportAll ==
    \/ \E symbols \in ExportSymbolLists, gc \in BOOLEAN : ConstructOptimized(symbols, gc)
    \/ \E upload_to_sheets \in BOOLEAN, io \in IoOutcomes :
            ExportAllData(upload_to_sheets, io)

SpecExportAll == Init /\ [][NextExportAll]_vars

\* AutoUpdater(symbols): a LookerStudioOptimized of its own, running False,
\* last_update None.
ConstructUpdater(symbols, gc) ==
    /\ updater.pc \in {"none", "idle"}
    /\ exporter' = [class |-> "LookerStudioOptimized", symbols |-> symbols, gc |-> gc]
    /\ updater' = [NoUpdater EXCEPT !.pc = "idle"]
    /\ UNCHANGED <<files, sheets, exported, now, seriesVars, snapshotVars, monitorVars,
                   dashboardVars>>

\* One whole update_data call at time now + 1, applied to the updater u.
Update(u, io) ==
    /\ now' = now + 1
    /\ \E outcomes \in AllOutcomes(exporter.symbols) :
          LET r == export_all_data(exporter, files, sheets, outcomes, TRUE, io, now + 1)
          IN  /\ files' = r.files
              /\ sheets' = r.sheets
              /\ exported' = [op |-> "export_all_data", records |-> 0,
                              returned |-> r.returned, raised |-> r.kind = "raised",
                              upload |-> TRUE, uploaded |-> r.uploaded]
              /\ updater' = update_data(u, r, now + 1)
    /\ UNCHANGED <<exporter, seriesVars, snapshotVars, monitorVars, dashboardVars>>

\* run_once: update_data, once.
RunOnce(io) ==
    /\ updater.pc = "idle"
    /\ now < MaxExports
    /\ Update([updater EXCEPT !.started = @ + 1], io)

NextUpdate ==
    \/ \E symbols \in ExportSymbolLists, gc \in BOOLEAN : ConstructUpdater(symbols, gc)
    \/ \E io \in IoOutcomes : RunOnce(io)

SpecUpdate == Init /\ [][NextUpdate]_vars

\* run(), up to its first update_data: running = True, schedule_updates(),
\* and the initial update_data() begins.
Run ==
    /\ updater.pc = "idle"
    /\ now < MaxRunUpdates
    /\ updater' = [updater EXCEPT !.running = TRUE, !.pc = "initial", !.started = @ + 1]
    /\ UNCHANGED <<exportVars, seriesVars, snapshotVars, monitorVars, dashboardVars>>

\* The initial update_data() returns; run() enters its try block.
FinishInitialUpdate(io) ==
    /\ updater.pc = "initial"
    /\ Update([updater EXCEPT !.pc = "loop"], io)

\* `while self.running:` and the start of schedule.run_pending() with n jobs
\* due: the first due job begins, or with none due run_pending returns.  With
\* running false the loop ends and `finally` runs.
RunPending(n) ==
    /\ updater.pc = "loop"
    /\ updater.polls < MaxPolls
    /\ now + n <= MaxRunUpdates
    /\ updater' =
          IF ~updater.running
          THEN [updater EXCEPT !.pc = "left", !.left_by = "loop end", !.left_at = "loop",
                               !.running = FALSE]
          ELSE [updater EXCEPT !.polls = @ + 1, !.due = n,
                               !.pc = IF n = 0 THEN "sleep" ELSE "job",
                               !.started = IF n = 0 THEN @ ELSE @ + 1]
    /\ UNCHANGED <<exportVars, seriesVars, snapshotVars, monitorVars, dashboardVars>>

\* The running job's update_data returns; run_pending goes on to the next due
\* job, or returns.
FinishJob(io) ==
    /\ updater.pc = "job"
    /\ Update([updater EXCEPT !.due = @ - 1,
                              !.pc = IF updater.due > 1 THEN "job" ELSE "sleep",
                              !.started = IF updater.due > 1 THEN @ + 1 ELSE @], io)

\* time.sleep(1) returns.
Sleep ==
    /\ updater.pc = "sleep"
    /\ updater' = [updater EXCEPT !.pc = "loop", !.due = 0]
    /\ UNCHANGED <<exportVars, seriesVars, snapshotVars, monitorVars, dashboardVars>>

\* SIGINT or SIGTERM arrives while run() is anywhere after its first line.
\* SystemExit is not an Exception: neither update_data's nor run's except
\* clause catches it; inside the try block `finally` runs on the way out.
Signal ==
    /\ updater.pc \in {"initial", "loop", "job", "sleep"}
    /\ LET h == signal_handler(updater)
       IN  updater' =
             IF h.exits
             THEN [h.self EXCEPT !.pc = "left", !.left_by = "signal",
                                 !.left_at = updater.pc,
                                 !.running = IF updater.pc = "initial" THEN @ ELSE FALSE]
             ELSE h.self
    /\ UNCHANGED <<exportVars, seriesVars, snapshotVars, monitorVars, dashboardVars>>

\* An exception reaches run(): a KeyboardInterrupt anywhere (update_data does
\* not catch it), an Exception from run_pending or sleep (one inside
\* update_data is caught there).  The initial update_data() is outside the try
\* block; in the loop the except clauses and `finally` run.
Raises(exc) ==
    /\ updater.pc \in {"initial", "job", "sleep"}
    /\ exc = "Exception" => updater.pc = "sleep"
    /\ updater' = [updater EXCEPT !.pc = "left", !.left_by = exc, !.left_at = updater.pc,
                                  !.running = IF updater.pc = "initial" THEN @ ELSE FALSE]
    /\ UNCHANGED <<exportVars, seriesVars, snapshotVars, monitorVars, dashboardVars>>

NextRun ==
    \/ \E symbols \in ExportSymbolLists, gc \in BOOLEAN : ConstructUpdater(symbols, gc)
    \/ Run
    \/ \E io \in IoOutcomes : FinishInitialUpdate(io)
    \/ \E n \in 0..ScheduledJobs : RunPending(n)
    \/ \E io \in IoOutcomes : FinishJob(io)
    \/ Sleep
    \/ Signal
    \/ \E exc \in {"KeyboardInterrupt", "Exception"} : Raises(exc)

SpecRun == Init /\ [][NextRun]_vars

\* What the user can type into the watchlist's text input.
WatchInputs == {"", "AAPL", "MSFT", "GOOGL", "7203.T"}

\* The add button is pressed with new_symbol in the text input.
AddToWatchlist(new_symbol) ==
    /\ session_state' = [session_state EXCEPT
                            !.watchlist = watchlist_add(session_state.watchlist, new_symbol)]
    /\ widgets' = [widgets EXCEPT !.event = "add", !.arg = new_symbol, !.message = "none"]
    /\ UNCHANGED <<seriesVars, snapshotVars, monitorVars, exportVars, updater>>

\* The remove button of a listed symbol is pressed.
RemoveFromWatchlist(symbol) ==
    /\ PyIn(symbol, session_state.watchlist)
    /\ session_state' = [session_state EXCEPT
                            !.watchlist = list_remove(session_state.watchlist, symbol)]
    /\ widgets' = [widgets EXCEPT !.event = "remove", !.arg = symbol, !.message = "none"]
    /\ UNCHANGED <<seriesVars, snapshotVars, monitorVars, exportVars, updater>>

NextWatchlist ==
    \/ \E new_symbol \in WatchInputs : AddToWatchlist(new_symbol)
    \/ \E symbol \in WatchInputs : RemoveFromWatchlist(symbol)

SpecWatchlist == Init /\ [][NextWatchlist]_vars

\* The slider positions tried.
WeightInputs == {MinWeight, 1, 30, 50, 70, 99, MaxWeight}

\* A slider is moved; the page runs again without a click on save.
SetSlider(symbol, weight) ==
    /\ widgets.weights[symbol] # weight
    /\ LET weights == [widgets.weights EXCEPT ![symbol] = weight]
           r == show_portfolio_analysis(session_state.portfolio, weights, FALSE)
       IN  /\ session_state' = [session_state EXCEPT !.portfolio = r.portfolio]
           /\ widgets' = [weights |-> weights, event |-> "slider", arg |-> symbol,
                          message |-> r.message]
    /\ UNCHANGED <<seriesVars, snapshotVars, monitorVars, exportVars, updater>>

\* The user goes for the save button; the page runs with the sliders as they are.
ClickSave ==
    /\ LET r == show_portfolio_analysis(session_state.portfolio, widgets.weights, TRUE)
       IN  /\ session_state' = [session_state EXCEPT !.portfolio = r.portfolio]
           /\ widgets' = [widgets EXCEPT !.event = "save", !.arg = "", !.message = r.message]
    /\ UNCHANGED <<seriesVars, snapshotVars, monitorVars, exportVars, updater>>

NextPortfolio ==
    \/ \E i \in 1..Len(PortfolioSymbols), weight \in WeightInputs :
            SetSlider(PortfolioSymbols[i], weight)
    \/ ClickSave

SpecPortfolio == Init /\ [][NextPortfolio]_vars

-----------------------------------------------------------------------------
\* Claims about calculate_technical_indicators.

Returned == pc = "done"

\* Sum of the integer closes c[lo..hi] (1-based), from the definition.
RECURSIVE CloseSum(_, _, _)
CloseSum(c, lo, hi) == IF lo > hi THEN 0 ELSE c[lo] + CloseSum(c, lo + 1, hi)

\* Arithmetic mean of the closes at the source's indices i-w+1 .. i.
TrailingMean(c, i, w) == Num(CloseSum(c, i - w + 2, i + 1), w)

\* Sum over c[lo..hi] of (w*close - total)^2, that is w^2 times the sum of the
\* squared deviations from the mean total/w.
RECURSIVE SqDevSum(_, _, _, _, _)
SqDevSum(c, w, total, lo, hi) ==
    IF lo > hi THEN 0
    ELSE (w * c[lo] - total) * (w * c[lo] - total) + SqDevSum(c, w, total, lo + 1, hi)

\* Sample standard deviation of the closes at the source's indices i-w+1 .. i:
\* the root of the sum of squared deviations from the mean over w - 1.
TrailingStd(c, i, w) ==
    Sqrt(Num(SqDevSum(c, w, CloseSum(c, i - w + 2, i + 1), i - w + 2, i + 1),
             w * w * (w - 1)))

IsConstant(c) == \A i \in 1..Len(c) : c[i] = c[1]

\* C1 (as claimed): RSI is NaN at every index i < 14; the first valid RSI
\* index is 14, never 13.
C1_RsiInvalidBelow14 ==
    Returned => \A i \in Indices(df) : i < 14 => IsNaN(At(RSI, i))

\* C2 (as claimed): wherever the 14-bar window is full and the average loss
\* is 0, RSI is 100, also when the average gain is 0 as well.
C2_RsiSaturatesAt100 ==
    Returned =>
        LET l == loss
            r == RSI
        IN  \A i \in Indices(df) :
                (i >= 14 /\ At(l, i) = Float(0)) => At(r, i) = Float(100)

MAValid(col, i, w) ==
    IF i >= w - 1
    THEN At(col, i) = TrailingMean(df, i, w)
    ELSE IsNaN(At(col, i)) /\ At(col, i) # Float(0)

\* C9: for w in {5, 20, 50}, MA_w[i] is the arithmetic mean of Close[i-w+1..i]
\* for every i >= w-1 and NaN (not 0) for every i < w-1; a series shorter
\* than w has MA_w NaN everywhere, and a constant series of value v has
\* MA_w = v at every valid index.
C9_MovingAverages ==
    Returned =>
        LET m5 == MA_5
            m20 == MA_20
            m50 == MA_50
        IN  /\ \A i \in Indices(df) :
                    /\ MAValid(m5, i, 5)
                    /\ MAValid(m20, i, 20)
                    /\ MAValid(m50, i, 50)
            /\ Len(df) < 5 => \A i \in Indices(df) : IsNaN(At(m5, i))
            /\ Len(df) < 20 => \A i \in Indices(df) : IsNaN(At(m20, i))
            /\ Len(df) < 50 => \A i \in Indices(df) : IsNaN(At(m50, i))
            /\ IsConstant(df) =>
                    \A i \in Indices(df) :
                        /\ i >= 4 => At(m5, i) = Float(df[1])
                        /\ i >= 19 => At(m20, i) = Float(df[1])
                        /\ i >= 49 => At(m50, i) = Float(df[1])

\* C9 witness: a returned non-constant series of 51 bars, where MA_50 is NaN
\* at index 48 and valid at indices 49 and 50.
C9_Witness ==
    /\ Returned
    /\ Len(df) >= 51
    /\ ~IsConstant(df)
    /\ IsNaN(At(MA_50, 48))
    /\ IsNum(At(MA_50, 49))
    /\ IsNum(At(MA_50, 50))

\* C10: BB_Middle equals MA_20 at every index; at every index i >= 19 the
\* bands are symmetric, BB_Upper - BB_Middle = BB_Middle - BB_Lower = 2 * (the
\* 20-bar sample standard deviation), so BB_Upper - BB_Lower = 4 * that
\* deviation; at every index i < 19 all three bands are NaN.
C10_BollingerBands ==
    Returned =>
        LET mid == BB_Middle
            up == BB_Upper
            lo == BB_Lower
            m20 == MA_20
        IN  \A i \in Indices(df) :
                LET m == At(mid, i)
                    u == At(up, i)
                    l == At(lo, i)
                IN  /\ m = At(m20, i)
                    /\ i >= 19 =>
                            LET sd == TrailingStd(df, i, 20)
                            IN  /\ SSub(u, SFromFloat(m)) = SScale(sd, Float(2))
                                /\ SSub(SFromFloat(m), l) = SScale(sd, Float(2))
                                /\ SSub(u, l) = SScale(sd, Float(4))
                    /\ i < 19 => IsNaN(m) /\ SIsNaN(u) /\ SIsNaN(l)

\* C10 witness: a returned series of more than 20 bars whose 20-bar deviation
\* at index 19 is not zero, so that the bands differ from the middle.
C10_Witness ==
    /\ Returned
    /\ Len(df) > 20
    /\ At(BB_Upper, 19) # At(BB_Lower, 19)
    /\ SIsNaN(At(BB_Upper, 18))

\* (1-alpha)^k for alpha = 2/(span+1).
RECURSIVE DecayPow(_, _)
DecayPow(span, k) == IF k = 0 THEN Float(1) ELSE FMul(Decay(span), DecayPow(span, k - 1))

\* Sum over k = 0..i of (1-alpha)^k * x[i-k] (source indices).
RECURSIVE WeightedSum(_, _, _, _)
WeightedSum(x, span, i, k) ==
    IF k > i THEN Float(0)
    ELSE FAdd(FMul(DecayPow(span, k), At(x, i - k)), WeightedSum(x, span, i, k + 1))

\* Sum over k = 0..i of (1-alpha)^k.
RECURSIVE WeightTotal(_, _, _)
WeightTotal(span, i, k) ==
    IF k > i THEN Float(0) ELSE FAdd(DecayPow(span, k), WeightTotal(span, i, k + 1))

\* y is the plain recurrence over x at the indices in idx.
FollowsRecurrence(y, x, span, idx) ==
    \A i \in idx :
        IF i = 0 THEN At(y, 0) = At(x, 0)
        ELSE At(y, i) = FAdd(FMul(Num(2, span + 1), At(x, i)),
                             FMul(Num(span - 1, span + 1), At(y, i - 1)))

\* y is the weighted mean of all observations so far over x at the indices in idx.
IsWeightedMean(y, x, span, idx) ==
    \A i \in idx :
        At(y, i) = FDiv(WeightedSum(x, span, i, 0), WeightTotal(span, i, 0))

\* The indices at which MACD_Signal is compared: from index 2 on its exact
\* value has a denominator beyond the 32-bit integers of the model checker.
SignalChecked == Indices(df) \cap {0, 1}

\* C3 (as claimed): the exponential averages of MACD (span 12 and 26 over
\* Close, span 9 over MACD) follow EMA[0] = x[0], EMA[i] = a*x[i] + (1-a)*EMA[i-1]
\* with a = 2/(span+1) at every index i >= 1.
C3_EmaRecurrence ==
    Returned =>
        /\ FollowsRecurrence(exp1, Close, 12, Indices(df))
        /\ FollowsRecurrence(exp2, Close, 26, Indices(df))
        /\ FollowsRecurrence(MACD_Signal, MACD, 9, SignalChecked)

\* C3 (amended): all three averages are the weighted mean of the observations
\* so far, EMA[i] = (sum over k = 0..i of (1-a)^k * x[i-k]) / (sum over
\* k = 0..i of (1-a)^k) with a = 2/(span+1); so EMA[0] = x[0], and the three
\* averages use the same convention.
C3_EmaWeightedMean ==
    Returned =>
        /\ IsWeightedMean(exp1, Close, 12, Indices(df))
        /\ IsWeightedMean(exp2, Close, 26, Indices(df))
        /\ IsWeightedMean(MACD_Signal, MACD, 9, SignalChecked)
        /\ df # << >> =>
                /\ At(exp1, 0) = At(Close, 0)
                /\ At(exp2, 0) = At(Close, 0)
                /\ At(MACD_Signal, 0) = At(MACD, 0)

\* C3 witness: a returned series of three bars whose averages at index 1 and
\* 2 differ from the input, with a non-zero MACD under the signal line.
C3_Witness ==
    /\ Returned
    /\ Len(df) >= 3
    /\ At(exp1, 2) # At(Close, 2)
    /\ At(exp2, 1) # At(Close, 1)
    /\ At(MACD, 1) # Float(0)
    /\ At(MACD_Signal, 1) # At(MACD, 1)

\* The bar-to-bar differences of the closes c inside the 14-bar window that
\* ends at the source's index i: Close[j] - Close[j-1] for j = i-13 .. i, as far
\* as bar j-1 exists.
WindowDifferences(c, i) ==
    {c[j + 1] - c[j] : j \in (IF i - 13 < 1 THEN 1 ELSE i - 13) .. i}

\* C12: at every index where RSI is a number, 0 <= RSI <= 100; where every
\* bar-to-bar difference in the window is a gain RSI = 100, and where every
\* difference in the window is a loss RSI = 0.
C12_RsiRange ==
    Returned =>
        LET r == RSI
        IN  \A i \in Indices(df) :
                LET v == At(r, i)
                    w == WindowDifferences(df, i)
                IN  /\ ~IsNaN(v) => FLe(Float(0), v) /\ FLe(v, Float(100))
                    /\ (i >= 13 /\ \A x \in w : x > 0) => v = Float(100)
                    /\ (i >= 13 /\ \A x \in w : x < 0) => v = Float(0)

\* C12 witness: a returned series whose window at index 14 holds gains and a
\* loss, so that RSI is strictly between 0 and 100 there, and whose window at
\* index 15 holds gains only, where RSI is 100.
C12_Witness ==
    /\ Returned
    /\ Len(df) >= 16
    /\ FLt(Float(0), At(RSI, 14))
    /\ FLt(At(RSI, 14), Float(100))
    /\ \A x \in WindowDifferences(df, 15) : x > 0
    /\ At(RSI, 15) = Float(100)

C14_ShortInputMarkedInvalid ==
    (Returned /\ Len(data) <= 49) =>
        LET m5 == MA_5
            m20 == MA_20
            m50 == MA_50
            r == RSI
            mid == BB_Middle
            up == BB_Upper
            lo == BB_Lower
        IN  /\ Len(df) = Len(data)
            /\ \A i \in Indices(df) :
                    /\ i < 4 => IsNaN(At(m5, i))
                    /\ i < 19 => IsNaN(At(m20, i)) /\ IsNaN(At(mid, i))
                    /\ i < 19 => SIsNaN(At(up, i)) /\ SIsNaN(At(lo, i))
                    /\ IsNaN(At(m50, i))
                    /\ i < 14 => IsNaN(At(r, i))

\* The symbols at the positions of the outcome list that are successes.
RECURSIVE Successes(_, _, _)
Successes(symbols, outcomes, i) ==
    IF i > Len(symbols) THEN << >>
    ELSE IF outcomes[i] = "ok"
         THEN <<symbols[i]>> \o Successes(symbols, outcomes, i + 1)
         ELSE Successes(symbols, outcomes, i + 1)

\* C21: for every symbol list and every pattern of fetch outcomes,
\* get_all_stock_data returns (no exception leaves get_stock_data), it called
\* get_stock_data for every symbol of the list in order, and the returned
\* list holds exactly one dict per successful symbol, in the list's order.
C21_FetchIsolatesFailures ==
    fetch.kind # "none" =>
        /\ fetch.kind = "returned"
        /\ fetch.calls = fetch.symbols
        /\ Len(fetch.all_data) = Len(Successes(fetch.symbols, fetch.outcomes, 1))
        /\ \A i \in 1..Len(fetch.all_data) :
                /\ fetch.all_data[i].kind = "dict"
                /\ fetch.all_data[i].symbol = Successes(fetch.symbols, fetch.outcomes, 1)[i]

\* C21 witness: a fetch over two different symbols whose first fetch raised
\* and whose second succeeded returned the second symbol's dict alone.
C21_Witness ==
    /\ fetch.kind = "returned"
    /\ fetch.outcomes = <<"raise", "ok">>
    /\ fetch.symbols[1] # fetch.symbols[2]
    /\ Len(fetch.all_data) = 1
    /\ fetch.all_data[1].symbol = fetch.symbols[2]

IsPrefix(a, b) == Len(a) <= Len(b) /\ SubSeq(b, 1, Len(a)) = a

\* The file exists, its first row is the header row, no other row is, and
\* every data row lists its fields in the header's column order.
HeaderOnceRowsAligned(file) ==
    /\ file.exists
    /\ Len(file.rows) >= 1
    /\ file.rows[1] = HeaderRow
    /\ \A i \in 2..Len(file.rows) :
            /\ file.rows[i].kind = "data"
            /\ file.rows[i].columns = headers

\* C22: every construction, run_single_fetch and save_to_csv on the output
\* directory leaves stock_prices.csv with the header row exactly once, as its
\* first row, and with every data row in the header's column order; the rows
\* the file held before the step are still its first rows, unchanged; and
\* save_to_csv with an empty list leaves the file as it was.
C22_CsvAppendOnly ==
    [][/\ HeaderOnceRowsAligned(csv')
       /\ csv.exists => IsPrefix(csv.rows, csv'.rows)
       /\ (monitor'.op = "save_to_csv" /\ monitor'.data = << >>) => csv' = csv]_vars

\* C22 witness: a monitor was constructed on a directory whose file already
\* held the header and two data rows, and the rows are still there.
C22_Witness ==
    /\ monitor.op = "__init__"
    /\ Len(csv.rows) >= 3
    /\ csv.rows[1] = HeaderRow
    /\ csv.rows[3].kind = "data"

\* C23: an export operation that collected no record returns None and leaves
\* every export file, its own included, exactly as it was (not created, not
\* emptied, not rewritten); one that collected at least one record returns the
\* frame and its file holds exactly the records of this call.
C23_ExportLeavesFileOnNone ==
    [][\A op \in ExportOps :
          /\ exported'.op = op /\ exported'.records = 0 =>
                /\ exported'.returned[op] = "None"
                /\ files' = files
          /\ exported'.op = op /\ exported'.records > 0 =>
                /\ exported'.returned[op] = "DataFrame"
                /\ files'[FileOf(op)].exists
                /\ Len(files'[FileOf(op)].rows) = exported'.records
                /\ \A i \in 1..Len(files'[FileOf(op)].rows) :
                        files'[FileOf(op)].rows[i].at = now'
                /\ \A f \in FileNames \ {FileOf(op)} : files'[f] = files[f]]_vars

\* C23 witness: export_daily_data returned None at a time when
\* daily_stock_data.csv held the two rows of an earlier call, and they are
\* still there.
C23_Witness ==
    /\ exported.op = "daily"
    /\ exported.records = 0
    /\ exported.returned["daily"] = "None"
    /\ files["daily_stock_data.csv"].exists
    /\ Len(files["daily_stock_data.csv"].rows) = 2
    /\ now = 2

\* C24: after export_all_data(upload_to_sheets=True), every worksheet it
\* uploaded is the file as the four exports left it, and holds only rows
\* written by this invocation: its dataset's export did not return None.
C24_UploadsOnlyThisRun ==
    (exported.op = "export_all_data" /\ exported.upload) =>
        \A op \in OptimizedExports :
            FileOf(op) \in exported.uploaded =>
                /\ sheets[FileOf(op)] = files[FileOf(op)]
                /\ exported.returned[op] = "DataFrame"
                /\ \A i \in 1..Len(sheets[FileOf(op)].rows) :
                        sheets[FileOf(op)].rows[i].at = now

\* C25: every update_data call ends in one of its three branches (nothing is
\* propagated), and when export_all_data raised, or all four datasets are
\* None, last_update keeps its value and the success branch is not taken.
C25_LastUpdateOnlyOnData ==
    [][updater'.finished = updater.finished + 1 =>
          /\ updater'.branch \in {"success", "failure", "except"}
          /\ (\/ exported'.raised
              \/ \A op \in OptimizedExports : exported'.returned[op] = "None") =>
                /\ updater'.last_update = updater.last_update
                /\ updater'.branch # "success"]_vars

\* C26: in run(), run_pending is first called only after the initial
\* update_data has returned; once _signal_handler has handled a signal no
\* update_data call begins any more, also when the signal came during an
\* update; and when run() is left by a signal, or from its loop by a
\* KeyboardInterrupt or an exception, running is False.
C26_RunStopsOnSignal ==
    [][/\ updater'.polls > 0 => updater'.finished >= 1
       /\ updater'.signalled => updater'.started = updater.started
       /\ (/\ updater'.pc = "left"
           /\ \/ updater'.left_by = "signal"
              \/ updater'.left_at \in {"loop", "job", "sleep"}) => ~updater'.running]_vars

\* C26 witness: the signal arrived during the first of two due jobs, after the
\* initial update; run() was left, the second job never began.
C26_Witness ==
    /\ updater.pc = "left"
    /\ updater.left_by = "signal"
    /\ updater.left_at = "job"
    /\ updater.due = 2
    /\ updater.started = 2
    /\ updater.finished = 1
    /\ ~updater.running

\* C27: the watchlist never holds a symbol twice, nor the empty symbol; adding
\* a symbol it holds changes nothing; removing a symbol takes out exactly that
\* symbol and keeps the others in their order.
C27_WatchlistDistinct ==
    [][/\ \A i, j \in 1..Len(session_state'.watchlist) :
              session_state'.watchlist[i] = session_state'.watchlist[j] => i = j
       /\ ~PyIn("", session_state'.watchlist)
       /\ (widgets'.event = "add" /\ PyIn(widgets'.arg, session_state.watchlist)) =>
              session_state'.watchlist = session_state.watchlist
       /\ widgets'.event = "remove" =>
              /\ Len(session_state'.watchlist) = Len(session_state.watchlist) - 1
              /\ session_state'.watchlist =
                    SelectSeq(session_state.watchlist, LAMBDA x : x # widgets'.arg)]_vars

\* C27 witness: a symbol in the middle of a three-symbol watchlist has been removed.
C27_Witness ==
    /\ widgets.event = "remove"
    /\ widgets.arg = "MSFT"
    /\ session_state.watchlist = <<"AAPL", "7203.T">>

\* The weights of a dict are each in 1..100 and add up to 100.
FullyAllocated(portfolio) ==
    /\ \A s \in DOMAIN portfolio : portfolio[s] \in 1..100
    /\ SumValues(portfolio, DOMAIN portfolio) = 100

\* C28: the saved portfolio is the empty dict or one whose weights are each in
\* 1..100 and add up to 100; it changes only by a save with the sliders adding
\* up to 100, and a save attempt at any other total leaves it as it was.
C28_PortfolioSumsTo100 ==
    [][/\ session_state'.portfolio = EmptyDict \/ FullyAllocated(session_state'.portfolio)
       /\ session_state'.portfolio # session_state.portfolio =>
              /\ widgets'.event = "save"
              /\ SumValues(widgets'.weights, DOMAIN widgets'.weights) = 100
       /\ (/\ widgets'.event = "save"
           /\ SumValues(widgets'.weights, DOMAIN widgets'.weights) # 100) =>
              session_state'.portfolio = session_state.portfolio]_vars

\* C28 witness: with a portfolio saved, the sliders were moved to a total of
\* 120 and a save was tried; the saved portfolio is still the earlier one.
C28_Witness ==
    /\ widgets.event = "save"
    /\ widgets.message = "warning"
    /\ SumValues(widgets.weights, DOMAIN widgets.weights) = 120
    /\ session_state.portfolio # EmptyDict
    /\ session_state.portfolio # PortfolioOf(widgets.weights)

\* C29: in every record of get_optimized_stock_data, is_high_volatility is
\* true exactly when volatility_category is 'Very High (>5%)', and
\* is_large_cap exactly when market_cap_category is the large or the mega
\* bucket, the thresholds included.
C29_FlagsAgreeWithCategories ==
    record.kind = "optimized" =>
        /\ record.is_high_volatility <=> record.volatility_category = "Very High (>5%)"
        /\ record.is_large_cap <=>
              record.market_cap_category \in {"Large Cap ($10B-$200B)", "Mega Cap (>$200B)"}

\* C11: MACD, MACD_Signal and MACD_Histogram are numbers at every index of
\* the returned series, index 0 included (no warm-up gap), and at every index
\* MACD_Histogram plus MACD_Signal gives back MACD, that is
\* MACD_Histogram[i] = MACD[i] - MACD_Signal[i].  The signal and the histogram
\* are compared where the signal is representable.
C11_MacdDefinedEverywhere ==
    Returned =>
        LET m == MACD
            sg == MACD_Signal
            h == MACD_Histogram
        IN  /\ \A i \in Indices(df) : IsNum(At(m, i))
            /\ \A i \in SignalChecked :
                    /\ IsNum(At(sg, i))
                    /\ IsNum(At(h, i))
                    /\ FAdd(At(h, i), At(sg, i)) = At(m, i)
                    /\ At(h, i) = FSub(At(m, i), At(sg, i))

\* C11 witness: a returned series of at least two bars whose MACD at index 1
\* is above its signal line, so that the histogram there is positive.
C11_Witness ==
    /\ Returned
    /\ Len(df) >= 2
    /\ IsNum(At(MACD, 0))
    /\ FGt(At(MACD_Histogram, 1), Float(0))

-----------------------------------------------------------------------------
\* Claims about the snapshot categorizers and the emitted records.

Built == record.kind \in {"optimized", "enhanced"}

\* The sector name _categorize_sector receives from get_optimized_stock_data.
SectorArgument == dict_get(info.sector, PyStr(<<"Unknown">>))

SectorMissing ==
    \/ SectorArgument.t = "None"
    \/ SectorArgument.v = << >>
    \/ SectorArgument.v = <<"Unknown">>

\* C4 (as claimed): a sector name containing the keyword Technology,
\* Financial, Healthcare or Consumer maps to that group (the first of them in
\* this order when it contains several), a non-empty name containing none of
\* them maps to 'Other', and an empty or missing name maps to 'Unknown'.
C4_SectorByKeyword ==
    record.kind = "optimized" =>
        LET name == SectorArgument.v
            has(kw) == Contains(name, <<kw>>)
            group == record.sector_category
        IN  IF SectorMissing THEN group = "Unknown"
            ELSE IF has("Technology") THEN group = "Technology"
            ELSE IF has("Financial") THEN group = "Financial"
            ELSE IF has("Healthcare") THEN group = "Healthcare"
            ELSE IF has("Consumer") THEN group = "Consumer"
            ELSE group = "Other"

\* The average volume _categorize_volume receives.
AverageVolumeArgument == dict_get(info.averageVolume, PyInt(latest.Volume))

\* C5 (as claimed): for every volume and every average volume <= 0, both
\* _categorize_volume implementations return 'Unknown'.
C5_NonPositiveAverageVolumeUnknown ==
    (Built /\ AverageVolumeArgument.t = "int" /\ AverageVolumeArgument.v <= 0)
        => record.volume_category = "Unknown"

\* C6 (as claimed): for a market cap that is missing (absent key, None or
\* 'N/A') or zero, the categorization reached from get_enhanced_stock_data /
\* get_optimized_stock_data yields 'Unknown' and does not raise, so the
\* symbol's record is not dropped for it.
C6_MissingMarketCapUnknown ==
    (/\ record.kind # "pending"
     /\ ~latest.empty
     /\ info.averageVolume # None
     /\ info.marketCap \in {Absent, None, NA, PyInt(0)})
        => Built /\ record.market_cap_category = "Unknown"

\* C7 (as claimed): for every snapshot with current price <= 0 the volatility
\* computed in get_optimized_stock_data is exactly 0 and its category is
\* 'Very Low'.
C7_NonPositivePriceZeroVolatility ==
    (record.kind = "optimized" /\ latest.Close <= 0)
        => /\ record.volatility = Number(0)
           /\ record.volatility_category = "Very Low (<1%)"

\* The last call of a bucket function was a call of fn.
Called(fn) == call.fn = fn

\* C15: LookerStudioExporter._categorize_price returns 'Low Price' for a
\* price below 10, 'Medium Price' from 10 to below 50, 'High Price' from 50 to
\* below 100 and 'Very High Price' from 100 on; exactly 10, 50 and 100 belong
\* to the upper bucket.  Prices are in cents.
C15_PriceBuckets ==
    Called("Exporter._categorize_price") =>
        LET cents == call.args[1]
        IN  /\ cents < 1000 => call.label = "Low Price"
            /\ (1000 <= cents /\ cents < 5000) => call.label = "Medium Price"
            /\ (5000 <= cents /\ cents < 10000) => call.label = "High Price"
            /\ cents >= 10000 => call.label = "Very High Price"
            /\ cents = 1000 => call.label = "Medium Price"
            /\ cents = 5000 => call.label = "High Price"
            /\ cents = 10000 => call.label = "Very High Price"

\* C15 witness: the call with a price of exactly 50 returned 'High Price'.
C15_Witness ==
    /\ Called("Exporter._categorize_price")
    /\ call.args = <<5000>>
    /\ call.label = "High Price"

\* C16: LookerStudioExporter._categorize_change returns 'Large Decrease' for
\* a change percent below -5, 'Decrease' from -5 to below -1, 'Stable' from -1
\* to below 1, 'Increase' from 1 to below 5 and 'Large Increase' from 5 on;
\* exactly -5 is 'Decrease' and exactly 5 is 'Large Increase'.  Change percents
\* are in hundredths.
C16_ChangeBuckets ==
    Called("Exporter._categorize_change") =>
        LET c == call.args[1]
        IN  /\ c < -500 => call.label = "Large Decrease"
            /\ (-500 <= c /\ c < -100) => call.label = "Decrease"
            /\ (-100 <= c /\ c < 100) => call.label = "Stable"
            /\ (100 <= c /\ c < 500) => call.label = "Increase"
            /\ c >= 500 => call.label = "Large Increase"
            /\ c = -500 => call.label = "Decrease" /\ call.label # "Large Decrease"
            /\ c = 500 => call.label = "Large Increase"

\* C16 witness: the call with a change of exactly -5 percent returned
\* 'Decrease'.
C16_Witness ==
    /\ Called("Exporter._categorize_change")
    /\ call.args = <<-500>>
    /\ call.label = "Decrease"

\* C17: LookerStudioExporter._categorize_market_cap returns, for every
\* non-zero numeric market cap, 'Small Cap' below 2e9, 'Mid Cap' from 2e9 to
\* below 1e10, 'Large Cap' from 1e10 to below 2e11 and 'Mega Cap' from 2e11 on;
\* exactly 2e9 is 'Mid Cap', exactly 1e10 'Large Cap', exactly 2e11 'Mega Cap'.
\* Market caps are in millions of dollars.
C17_MarketCapBuckets ==
    (Called("Exporter._categorize_market_cap") /\ call.args[1].t = "int"
        /\ call.args[1].v # 0) =>
        LET m == call.args[1].v
        IN  /\ m < 2000 => call.label = "Small Cap"
            /\ (2000 <= m /\ m < 10000) => call.label = "Mid Cap"
            /\ (10000 <= m /\ m < 200000) => call.label = "Large Cap"
            /\ m >= 200000 => call.label = "Mega Cap"
            /\ m = 2000 => call.label = "Mid Cap"
            /\ m = 10000 => call.label = "Large Cap"
            /\ m = 200000 => call.label = "Mega Cap"

\* C17 witness: the call with a market cap of exactly 2e11 returned 'Mega Cap'.
C17_Witness ==
    /\ Called("Exporter._categorize_market_cap")
    /\ call.args = <<PyInt(200000)>>
    /\ call.label = "Mega Cap"

\* 2 * volume compared with k * average volume, for an average volume > 0:
\* the ratio volume / average volume against k/2, in integers.
RatioBelow(volume, avg, k) == 2 * volume < k * avg

\* C18: LookerStudioExporter._categorize_volume returns, for every volume and
\* every average volume > 0 with ratio r = volume / average volume,
\* 'Low Volume' for r < 0.5, 'Normal Volume' for 0.5 <= r < 1.5, 'High Volume'
\* for 1.5 <= r < 3 and 'Very High Volume' for r >= 3; the ratios 0.5, 1.5 and 3
\* belong to the upper bucket.
C18_VolumeBuckets ==
    (Called("Exporter._categorize_volume") /\ call.args[2].t = "int"
        /\ call.args[2].v > 0) =>
        LET volume == call.args[1]
            avg == call.args[2].v
        IN  /\ RatioBelow(volume, avg, 1) => call.label = "Low Volume"
            /\ (~RatioBelow(volume, avg, 1) /\ RatioBelow(volume, avg, 3))
                    => call.label = "Normal Volume"
            /\ (~RatioBelow(volume, avg, 3) /\ RatioBelow(volume, avg, 6))
                    => call.label = "High Volume"
            /\ ~RatioBelow(volume, avg, 6) => call.label = "Very High Volume"
            /\ 2 * volume = avg => call.label = "Normal Volume"
            /\ 2 * volume = 3 * avg => call.label = "High Volume"
            /\ volume = 3 * avg => call.label = "Very High Volume"

\* C18 witness: the call with volume 6 and average volume 4, a ratio of
\* exactly 1.5, returned 'High Volume'.
C18_Witness ==
    /\ Called("Exporter._categorize_volume")
    /\ call.args = <<6, PyInt(4)>>
    /\ call.label = "High Volume"

\* C19: LookerStudioOptimized._categorize_volatility returns 'Very Low (<1%)'
\* for a volatility percent below 1, 'Low (1%-2%)' from 1 to below 2,
\* 'Medium (2%-3%)' from 2 to below 3, 'High (3%-5%)' from 3 to below 5 and
\* 'Very High (>5%)' from 5 on; the values 1, 2, 3 and 5 belong to the upper
\* bucket.  The percent v is compared as v.n against k * v.d.
C19_VolatilityBuckets ==
    Called("Optimized._categorize_volatility") =>
        LET v == call.args[1]
            below(k) == v.n < k * v.d
        IN  /\ below(1) => call.label = "Very Low (<1%)"
            /\ (~below(1) /\ below(2)) => call.label = "Low (1%-2%)"
            /\ (~below(2) /\ below(3)) => call.label = "Medium (2%-3%)"
            /\ (~below(3) /\ below(5)) => call.label = "High (3%-5%)"
            /\ ~below(5) => call.label = "Very High (>5%)"
            /\ v = Float(1) => call.label = "Low (1%-2%)"
            /\ v = Float(2) => call.label = "Medium (2%-3%)"
            /\ v = Float(3) => call.label = "High (3%-5%)"
            /\ v = Float(5) => call.label = "Very High (>5%)"

\* C19 witness: the call with a volatility of exactly 3 percent returned
\* 'High (3%-5%)'.
C19_Witness ==
    /\ Called("Optimized._categorize_volatility")
    /\ call.args = <<Float(3)>>
    /\ call.label = "High (3%-5%)"

\* The labels each bucket function can return.
Vocabulary(fn) ==
    CASE fn = "Exporter._categorize_price" ->
            {"Low Price", "Medium Price", "High Price", "Very High Price"}
      [] fn = "Exporter._categorize_change" ->
            {"Large Decrease", "Decrease", "Stable", "Increase", "Large Increase"}
      [] fn = "Exporter._categorize_volume" ->
            {"Unknown", "Low Volume", "Normal Volume", "High Volume", "Very High Volume"}
      [] fn = "Exporter._categorize_market_cap" ->
            {"Unknown", "Small Cap", "Mid Cap", "Large Cap", "Mega Cap"}
      [] fn = "Optimized._categorize_price" ->
            {"Under $10", "$10-$25", "$25-$50", "$50-$100", "$100-$200", "Over $200"}
      [] fn = "Optimized._categorize_change" ->
            {"Large Decrease (>-5%)", "Decrease (-2% to -5%)",
             "Small Decrease (-0.5% to -2%)", "Stable (-0.5% to 0.5%)",
             "Small Increase (0.5% to 2%)", "Increase (2% to 5%)",
             "Large Increase (>5%)"}
      [] fn = "Optimized._categorize_volume" ->
            {"Unknown", "Very Low (<50%)", "Low (50%-80%)", "Normal (80%-120%)",
             "High (120%-200%)", "Very High (>200%)"}
      [] fn = "Optimized._categorize_market_cap" ->
            {"Unknown", "Micro Cap (<$300M)", "Small Cap ($300M-$2B)",
             "Mid Cap ($2B-$10B)", "Large Cap ($10B-$200B)", "Mega Cap (>$200B)"}
      [] fn = "Optimized._categorize_sector" ->
            {"Unknown", "Technology", "Financial", "Healthcare", "Consumer", "Other"}
      [] fn = "Optimized._categorize_volatility" ->
            {"Very Low (<1%)", "Low (1%-2%)", "Medium (2%-3%)", "High (3%-5%)",
             "Very High (>5%)"}
      [] OTHER -> {}

C8_NoNumericDefault ==
    perf.kind = "row" =>
        /\ perf.bars < 7 => perf.performance_1w # 0
        /\ perf.bars < 30 => perf.performance_1m # 0
        /\ perf.bars < 90 => perf.performance_3m # 0
        /\ perf.bars < 180 => perf.performance_6m # 0

====
